---- MODULE Spec2Model ----
(***************************************************************************)
(* Model of the dynamic preset store of ComfyUI-NS-Util:                   *)
(*   src/nodes/FlexPreset.py       (NS_FlexPreset)                         *)
(*   src/nodes/prompt_list_node.py (NS_PromptList)                         *)
(*                                                                         *)
(* YAML nodes are records with a "tag": a mapping is                       *)
(* [tag |-> "map", items |-> <<<<key, node>>, ...>>] (an ordered dict),    *)
(* null is [tag |-> "null"], any other scalar is [tag |-> "str"] (a         *)
(* non-empty text such as hello, which Python takes as true).              *)
(* A field entry (value_data) that is a mapping is a record                *)
(* [tag |-> "map", type |-> ..., value |-> ...] whose "type" and "value"   *)
(* fields may be missing, as the keys of the Python dict may be.           *)
(* A preset is a record [tag |-> "map", values |-> node] whose "values"    *)
(* field may be missing.                                                   *)
(***************************************************************************)
EXTENDS Integers, Sequences, FiniteSets, TLC

VARIABLES
    files,              \* presets directory: file name -> bytes
    clock,              \* datetime.now() at one-second resolution
    panel_order,        \* instance -> self._panel_order
    dyn_out,            \* the singleton's _dynamic_output_types/_names
    RETURN_TYPES,       \* the class attribute NS_FlexPreset.RETURN_TYPES
    RETURN_NAMES,       \* the class attribute NS_FlexPreset.RETURN_NAMES
    workflow_loading,   \* the singleton's _workflow_loading
    emitted,            \* last "ns_flexpreset_set_widgets" payload sent
    r_pc, r_args,       \* evaluation thread: position in run, its arguments
    r_values,           \* run: values (line 779)
    r_schema,           \* run: outputs, output_names and the resolver's keys
    r_keys,             \* run: keys_to_process (lines 793-805)
    r_result,           \* run: the returned tuple
    e_pc, e_data,       \* _ensure_title_exists issued by run: position, data
    h_pc, h_req, h_data,\* server thread: request being handled, data to save
    response,           \* server thread: the last web.json_response returned
    w_pc, w_todo, w_file, w_bad, \* watcher thread: refresh_enums position
    s_pc, s_tmp,        \* _save_yaml: position, temporary file content
    ops,                \* number of requests and events issued so far
    pl_files,           \* NS_PromptList: promptlistYAML directory
    pl_pc, pl_data,     \* NS_PromptList.run: position, data it saves
    made,               \* the store objects constructed so far
    observer,           \* store object -> state of its self.observer
    w_event,            \* the file system event an observer dispatched last
    shutdown_call       \* the last call of shutdown: its object and outcome

vars == <<files, clock, panel_order, dyn_out, RETURN_TYPES, RETURN_NAMES,
          workflow_loading, emitted,
          r_pc, r_args, r_values, r_schema, r_keys, r_result,
          e_pc, e_data, h_pc, h_req, h_data, response,
          w_pc, w_todo, w_file, w_bad, s_pc, s_tmp, ops,
          pl_files, pl_pc, pl_data, made, observer, w_event, shutdown_call>>

\* The class attributes that dynamic_output_types assigns (lines 168-169)
class_vars == <<RETURN_TYPES, RETURN_NAMES>>
\* The state of NS_PromptList, and of the objects' watchers
promptlist_vars == <<pl_files, pl_pc, pl_data>>
lifecycle_vars == <<made, observer, w_event, shutdown_call>>
\* The state of NS_FlexPreset's store, handlers and evaluation
flexpreset_vars == <<files, clock, panel_order, dyn_out, RETURN_TYPES, RETURN_NAMES,
                     workflow_loading, emitted,
                     r_pc, r_args, r_values, r_schema, r_keys, r_result,
                     e_pc, e_data, h_pc, h_req, h_data, response,
                     w_pc, w_todo, w_file, w_bad, s_pc, s_tmp, ops>>

-----------------------------------------------------------------------------
(* Bounds of the model *)

MaxOps == 2          \* requests / external events per behaviour
MaxOrderLen == 2     \* length of a panel_order list sent by the frontend
MaxBadDepth == 2     \* nesting of bad_<ts>_ prefixes followed
MaxClock == 2        \* seconds that pass

-----------------------------------------------------------------------------
(* Ordered mappings (OrderedDict / dict with insertion order) *)

EmptyMap == [tag |-> "map", items |-> <<>>]
NullNode == [tag |-> "null"]
ScalarNode == [tag |-> "str"]

RECURSIVE SeqToSet(_)
SeqToSet(s) == IF s = <<>> THEN {} ELSE {Head(s)} \cup SeqToSet(Tail(s))

Contains(s, x) == \E i \in 1..Len(s) : s[i] = x

MapKeys(items) == [i \in 1..Len(items) |-> items[i][1]]
MapHas(items, k) == \E i \in 1..Len(items) : items[i][1] = k
MapGet(items, k) == items[CHOOSE i \in 1..Len(items) : items[i][1] = k][2]
\* d[k] = v : overwrite in place when k is present, append otherwise
MapPut(items, k, v) ==
    IF MapHas(items, k)
    THEN [i \in 1..Len(items) |-> IF items[i][1] = k THEN <<k, v>> ELSE items[i]]
    ELSE Append(items, <<k, v>>)
\* del d[k]
MapDel(items, k) == SelectSeq(items, LAMBDA kv : kv[1] # k)

-----------------------------------------------------------------------------
(* Document codec: yaml.load(f, Loader=OrderedLoader) / yaml.dump(...) *)

Absent == [kind |-> "absent"]
Placeholder == [kind |-> "comment"]          \* "# Recovered from corrupt file\n"
Truncated == [kind |-> "empty"]              \* opened for writing, nothing written
Garbage(n) == [kind |-> "garbage", id |-> n] \* unparsable bytes

\* yaml.load raises on unparsable bytes
LoadRaises(bytes) == bytes.kind = "garbage"
\* yaml.load(...) or {} : a comment-only or empty file loads as None
yaml_load(bytes) == IF bytes.kind = "yaml" THEN bytes.data ELSE <<>>
\* yaml.dump(data, Dumper=OrderedDumper, sort_keys=False): order kept
yaml_dump(data) == [kind |-> "yaml", data |-> data]

Field(t, v) == [tag |-> "map", type |-> t, value |-> v]
Preset(items) == [tag |-> "map", values |-> [tag |-> "map", items |-> items]]

\* The bug of a default document whose preset has no field
DefaultDocument_bare == yaml_dump(<< <<"example", Preset(<<>>)>> >>)

\* "example:\n  values:\n    sample_key:\n      type: string\n      value: ..."
DefaultDocument ==
    yaml_dump(<< <<"example",
        Preset(<< <<"sample_key", Field("string", "Enter your value here")>> >>)>> >>)

-----------------------------------------------------------------------------
(* The presets directory *)

\* File names: a document, its quarantine copies bad_<ts>_<name>, a temp file
Stamp(t) == IF t = 1 THEN "T1" ELSE IF t = 2 THEN "T2" ELSE IF t = 3 THEN "T3" ELSE "T4"
BadName(t, name) == "bad_" \o Stamp(t) \o "_" \o name

Documents == {"a.yaml"}
RECURSIVE NamesAtDepth(_)
NamesAtDepth(d) ==
    IF d = 0 THEN Documents \cup {"default.yaml"}
    ELSE {BadName(t, n) : t \in 1..MaxClock, n \in NamesAtDepth(d - 1)}
NamesUpTo(d) == UNION {NamesAtDepth(i) : i \in 0..d}
YamlNames == NamesUpTo(MaxBadDepth)

\* yaml_path.exists(): the empty name is the presets directory itself
Exists(fs, name) == name = "" \/ (name \in DOMAIN fs /\ fs[name] # Absent)
\* open(yaml_path) / yaml.load raise: a directory, or unparsable bytes
ReadRaises(fs, name) == name = "" \/ name \notin DOMAIN fs \/ LoadRaises(fs[name])
ReadData(fs, name) == yaml_load(fs[name])

-----------------------------------------------------------------------------
(* NS_FlexPreset readers *)

title_to_use(select_preset, input_preset_name) ==
    IF input_preset_name # "" THEN input_preset_name ELSE select_preset

\* data[title].get('values', {}) when title in data and data[title] is a dict
PresetValues(data, title) ==
    IF MapHas(data, title) /\ MapGet(data, title).tag = "map"
    THEN (IF "values" \in DOMAIN MapGet(data, title)
          THEN MapGet(data, title).values ELSE EmptyMap)
    ELSE EmptyMap

_get_values_from_yaml(fs, yaml_file, title) ==
    IF ~Exists(fs, yaml_file) THEN EmptyMap
    ELSE IF ReadRaises(fs, yaml_file) THEN EmptyMap
    ELSE PresetValues(ReadData(fs, yaml_file), title)

\* for panel_key in _panel_order: if panel_key in values: append
RECURSIVE PanelKeysLoop(_, _, _)
PanelKeysLoop(order, items, acc) ==
    IF order = <<>> THEN acc
    ELSE PanelKeysLoop(Tail(order), items,
            IF MapHas(items, Head(order)) THEN Append(acc, Head(order)) ELSE acc)

\* for key in values.keys(): if key not in keys_to_process: append
RECURSIVE MissingKeysLoop(_, _)
MissingKeysLoop(keys, acc) ==
    IF keys = <<>> THEN acc
    ELSE MissingKeysLoop(Tail(keys),
            IF Contains(acc, Head(keys)) THEN acc ELSE Append(acc, Head(keys)))

\* The bug of ignoring the tracker
keys_to_process_yaml_order(order, items) == MapKeys(items)

keys_to_process(order, items) ==
    IF order # <<>>
    THEN MissingKeysLoop(MapKeys(items), PanelKeysLoop(order, items, <<>>))
    ELSE MapKeys(items)

\* value_data.get('type', 'string')
DeclaredType(value_data) ==
    IF "type" \in DOMAIN value_data THEN value_data.type ELSE "string"

\* The bug of losing the float row of the translation table
OutputType_no_float(value_type) == IF value_type = "int" THEN "INT" ELSE "STRING"

OutputType(value_type) ==
    IF value_type = "int" THEN "INT"
    ELSE IF value_type = "float" THEN "FLOAT"
    ELSE "STRING"

OutputName(key, value_type) == key \o "_" \o value_type

\* for key in keys_to_process: ... outputs.append / output_names.append
RECURSIVE SchemaLoop(_, _, _)
SchemaLoop(keys, items, acc) ==
    IF keys = <<>> THEN acc
    ELSE LET key == Head(keys)
             value_data == MapGet(items, key)
         IN SchemaLoop(Tail(keys), items,
                IF MapHas(items, key) /\ value_data.tag = "map"
                THEN [outputs |-> Append(acc.outputs, OutputType(DeclaredType(value_data))),
                      names |-> Append(acc.names, OutputName(key, DeclaredType(value_data)))]
                ELSE acc)

\* The bug of having no default entry
DefaultSchema_none == [outputs |-> <<>>, names |-> <<>>]

DefaultSchema == [outputs |-> <<"STRING">>, names |-> <<"output">>]
EmptySchema == [outputs |-> <<>>, names |-> <<>>]

\* The try block of dynamic_output_types: the keys it processed and what it
\* appended; any exception leaves outputs empty
ResolveBody(fs, order, select_yaml, title) ==
    IF ReadRaises(fs, select_yaml) THEN [keys |-> <<>>, schema |-> EmptySchema]
    ELSE LET data == ReadData(fs, select_yaml)
             values == PresetValues(data, title)
         IN IF ~(MapHas(data, title) /\ MapGet(data, title).tag = "map")
            THEN [keys |-> <<>>, schema |-> EmptySchema]
            ELSE IF values.tag # "map"          \* TypeError / AttributeError
            THEN [keys |-> <<>>, schema |-> EmptySchema]
            ELSE LET keys == keys_to_process(order, values.items)
                 IN [keys |-> keys, schema |-> SchemaLoop(keys, values.items, EmptySchema)]

\* Result of dynamic_output_types: the pair it returns (schema), the keys it
\* processed, whether it stored the schema in the singleton, and the
\* singleton's _panel_order afterwards.  order is the singleton's _panel_order.
dynamic_output_types(fs, order, loading, select_yaml, select_preset, input_preset_name) ==
    LET title == title_to_use(select_preset, input_preset_name)
    IN IF title = "" \/ select_yaml = ""
       THEN IF loading
            THEN [schema |-> EmptySchema, keys |-> <<>>, stored |-> FALSE, order |-> order]
            ELSE [schema |-> DefaultSchema, keys |-> <<>>, stored |-> TRUE, order |-> <<>>]
       ELSE IF ~Exists(fs, select_yaml)
       THEN [schema |-> DefaultSchema, keys |-> <<>>, stored |-> TRUE, order |-> <<>>]
       ELSE LET body == ResolveBody(fs, order, select_yaml, title)
            IN [schema |-> IF body.schema.outputs = <<>> THEN DefaultSchema ELSE body.schema,
                keys |-> body.keys, stored |-> TRUE, order |-> order]

-----------------------------------------------------------------------------
(* NS_FlexPreset.run: conversion and arity reconciliation *)

\* Python values of the output tuple
PyInt(v) == [py |-> "int", repr |-> v]
PyFloat(v) == [py |-> "float", repr |-> v]
PyStr(v) == [py |-> "str", repr |-> v]

\* int(value) / float(value) succeed on these literals of the model
IntLiterals == {"5"}
FloatLiterals == {"5", "1.5"}

\* value_data.get('value', '')
StoredValue(value_data) ==
    IF "value" \in DOMAIN value_data THEN value_data.value ELSE ""

\* The bug of a conversion that never fails
ConvertRaises_never(value_data) == FALSE

\* int(value) / float(value) raise ValueError
ConvertRaises(value_data) ==
    \/ DeclaredType(value_data) = "int" /\ StoredValue(value_data) \notin IntLiterals
    \/ DeclaredType(value_data) = "float" /\ StoredValue(value_data) \notin FloatLiterals

Convert(value_data) ==
    IF DeclaredType(value_data) = "int" THEN PyInt(StoredValue(value_data))
    ELSE IF DeclaredType(value_data) = "float" THEN PyFloat(StoredValue(value_data))
    ELSE PyStr(StoredValue(value_data))

\* for key in keys_to_process: ... output_values.append(...) or raise ValueError
RECURSIVE ConvertLoop(_, _, _)
ConvertLoop(keys, items, acc) ==
    IF keys = <<>> \/ acc.raised THEN acc
    ELSE LET key == Head(keys)
             value_data == MapGet(items, key)
         IN ConvertLoop(Tail(keys), items,
                IF MapHas(items, key) /\ value_data.tag = "map"
                THEN (IF ConvertRaises(value_data)
                      THEN [acc EXCEPT !.raised = TRUE]
                      ELSE [acc EXCEPT !.vals = Append(@, Convert(value_data))])
                ELSE acc)

\* if values: a non-empty dict, or a non-empty scalar
Truthy(values) ==
    \/ values.tag = "map" /\ values.items # <<>>
    \/ values.tag = "str"

\* values.keys() of lines 800 and 805 raises AttributeError on a scalar
KeysRaises(values) == Truthy(values) /\ values.tag # "map"

ZeroValue(output_type) ==
    IF output_type = "INT" THEN PyInt("0")
    ELSE IF output_type = "FLOAT" THEN PyFloat("0.0")
    ELSE PyStr("")

\* The bug of returning the converted values as they are
Reconcile_none(outputs, output_values) == output_values

\* lines 835-850: pad with zero values or trim to len(outputs)
Reconcile(outputs, output_values) ==
    IF Len(output_values) < Len(outputs)
    THEN [i \in 1..Len(outputs) |->
            IF i <= Len(output_values) THEN output_values[i] ELSE ZeroValue(outputs[i])]
    ELSE IF Len(output_values) > Len(outputs)
    THEN SubSeq(output_values, 1, Len(outputs))
    ELSE output_values

\* lines 788-853 of run, given values, outputs and self._panel_order
RunKeys(self_order, values) ==
    IF Truthy(values) /\ ~KeysRaises(values)
    THEN keys_to_process(self_order, values.items) ELSE <<>>

\* raised: the ValueError of line 827; crashed: an exception of lines 791-805
RunTuple(self_order, values, outputs) ==
    LET conv == IF Truthy(values) /\ ~KeysRaises(values)
                THEN ConvertLoop(RunKeys(self_order, values), values.items,
                                 [vals |-> <<>>, raised |-> FALSE])
                ELSE [vals |-> <<>>, raised |-> FALSE]
        output_values == IF conv.vals = <<>> THEN <<PyStr("")>> ELSE conv.vals
    IN [raised |-> conv.raised, crashed |-> KeysRaises(values),
        tuple |-> Reconcile(outputs, output_values)]

-----------------------------------------------------------------------------
(* NS_FlexPreset mutations: the data each one computes before _save_yaml.  *)
(* Each returns [ok, data]: ok is FALSE when the method returns False      *)
(* without saving (a guard, or an exception caught by its except clause).  *)

NoData == <<>>
NoTask == [yaml |-> "", title |-> "", data |-> NoData]
\* _ensure_title_exists has returned ok (lines 651, 653, 657)
EnsureReturned(ok) == [yaml |-> "", title |-> "", data |-> NoData, ok |-> ok]
EmptyPreset == [tag |-> "map", values |-> EmptyMap]

\* The bug of writing a document that holds the new preset alone
ensure_title_data_alone(fs, yaml_file, title) ==
    IF Exists(fs, yaml_file) /\ ReadRaises(fs, yaml_file)
    THEN [ok |-> FALSE, write |-> FALSE, data |-> NoData]
    ELSE LET data == IF Exists(fs, yaml_file) THEN ReadData(fs, yaml_file) ELSE <<>>
         IN IF ~MapHas(data, title)
            THEN [ok |-> TRUE, write |-> TRUE, data |-> << <<title, EmptyPreset>> >>]
            ELSE [ok |-> TRUE, write |-> FALSE, data |-> data]

\* _ensure_title_exists, lines 639-657: write is TRUE when it saves
ensure_title_data(fs, yaml_file, title) ==
    IF Exists(fs, yaml_file) /\ ReadRaises(fs, yaml_file)
    THEN [ok |-> FALSE, write |-> FALSE, data |-> NoData]
    ELSE LET data == IF Exists(fs, yaml_file) THEN ReadData(fs, yaml_file) ELSE <<>>
         IN IF ~MapHas(data, title)
            THEN [ok |-> TRUE, write |-> TRUE, data |-> MapPut(data, title, EmptyPreset)]
            ELSE [ok |-> TRUE, write |-> FALSE, data |-> data]

\* The bug of moving an overwritten field to the end of the panel
add_value_data_moved(fs, yaml_file, title, key_name, key_type, key_value) ==
    IF Exists(fs, yaml_file) /\ ReadRaises(fs, yaml_file)
    THEN [ok |-> FALSE, data |-> NoData]
    ELSE LET data == IF Exists(fs, yaml_file) THEN ReadData(fs, yaml_file) ELSE <<>>
             preset == IF MapHas(data, title) THEN MapGet(data, title) ELSE EmptyPreset
         IN IF preset.tag # "map"
            THEN [ok |-> FALSE, data |-> NoData]
            ELSE IF "values" \in DOMAIN preset /\ preset.values.tag # "map"
            THEN [ok |-> FALSE, data |-> NoData]
            ELSE LET values == IF "values" \in DOMAIN preset THEN preset.values ELSE EmptyMap
                     new_values == [values EXCEPT !.items =
                                        Append(MapDel(@, key_name),
                                               <<key_name, Field(key_type, key_value)>>)]
                 IN [ok |-> TRUE,
                     data |-> MapPut(data, title, [tag |-> "map", values |-> new_values])]

\* _add_value, lines 664-697
add_value_data(fs, yaml_file, title, key_name, key_type, key_value) ==
    IF Exists(fs, yaml_file) /\ ReadRaises(fs, yaml_file)
    THEN [ok |-> FALSE, data |-> NoData]
    ELSE LET data == IF Exists(fs, yaml_file) THEN ReadData(fs, yaml_file) ELSE <<>>
             preset == IF MapHas(data, title) THEN MapGet(data, title) ELSE EmptyPreset
         IN IF preset.tag # "map"                     \* OrderedDict(scalar) raises
            THEN [ok |-> FALSE, data |-> NoData]
            ELSE IF "values" \in DOMAIN preset /\ preset.values.tag # "map"
            THEN [ok |-> FALSE, data |-> NoData]      \* OrderedDict(None) raises
            ELSE LET values == IF "values" \in DOMAIN preset THEN preset.values ELSE EmptyMap
                     new_values == [values EXCEPT !.items =
                                        MapPut(@, key_name, Field(key_type, key_value))]
                 IN [ok |-> TRUE,
                     data |-> MapPut(data, title, [tag |-> "map", values |-> new_values])]

\* title in data and "values" in data[title] and key in data[title]["values"];
\* raises stands for the TypeError of "key in None"
HasField(data, title, key_name) ==
    /\ MapHas(data, title)
    /\ MapGet(data, title).tag = "map"
    /\ "values" \in DOMAIN MapGet(data, title)
    /\ MapGet(data, title).values.tag = "map"
    /\ MapHas(MapGet(data, title).values.items, key_name)

SetValues(data, title, items) ==
    MapPut(data, title, [MapGet(data, title) EXCEPT !.values = [tag |-> "map", items |-> items]])

\* _delete_value, lines 705-720
delete_value_data(fs, yaml_file, title, key_name) ==
    IF ~Exists(fs, yaml_file) \/ ReadRaises(fs, yaml_file)
    THEN [ok |-> FALSE, data |-> NoData]
    ELSE LET data == ReadData(fs, yaml_file)
         IN IF HasField(data, title, key_name)
            THEN [ok |-> TRUE,
                  data |-> SetValues(data, title,
                              MapDel(MapGet(data, title).values.items, key_name))]
            ELSE [ok |-> FALSE, data |-> NoData]

\* for key, value in values.items(): new_values[new_key or key] = value
RECURSIVE RenameLoop(_, _, _, _)
RenameLoop(items, old_key, new_key, new_values) ==
    IF items = <<>> THEN new_values
    ELSE RenameLoop(Tail(items), old_key, new_key,
            MapPut(new_values,
                   IF Head(items)[1] = old_key THEN new_key ELSE Head(items)[1],
                   Head(items)[2]))

\* _update_key_name, lines 726-755
update_key_name_data(fs, yaml_file, title, old_key, new_key) ==
    IF ~Exists(fs, yaml_file) \/ new_key = "" \/ ReadRaises(fs, yaml_file)
    THEN [ok |-> FALSE, data |-> NoData]
    ELSE LET data == ReadData(fs, yaml_file)
         IN IF HasField(data, title, old_key) /\ old_key # new_key
            THEN [ok |-> TRUE,
                  data |-> SetValues(data, title,
                              RenameLoop(MapGet(data, title).values.items,
                                         old_key, new_key, <<>>))]
            ELSE [ok |-> FALSE, data |-> NoData]

\* _save_yaml: the temp file is dumped, then os.replace puts it at yaml_path
os_replace(fs, yaml_file, tmp) == [fs EXCEPT ![yaml_file] = tmp]
_save_yaml(fs, yaml_file, data) == os_replace(fs, yaml_file, yaml_dump(data))

\* list.remove(x): removes the first occurrence
RECURSIVE ListRemove(_, _)
ListRemove(s, x) ==
    IF s = <<>> THEN <<>>
    ELSE IF Head(s) = x THEN Tail(s) ELSE <<Head(s)>> \o ListRemove(Tail(s), x)

\* idx = list.index(old); list[idx] = new
ListReplaceFirst(s, old, new) ==
    LET idx == CHOOSE i \in 1..Len(s) : s[i] = old /\ \A j \in 1..(i-1) : s[j] # old
    IN [s EXCEPT ![idx] = new]

\* _get_prompt_data, lines 591-617 (the fields of the payload that vary)
_get_prompt_data(fs, yaml_file, title) ==
    IF ~Exists(fs, yaml_file) \/ ReadRaises(fs, yaml_file)
    THEN [title |-> title, values |-> EmptyMap]
    ELSE [title |-> title, values |-> PresetValues(ReadData(fs, yaml_file), title)]

-----------------------------------------------------------------------------
(* State after construction *)

Instances == {"singleton", "node"}   \* cls._instance; an object the host made

Keys == {"a", "b"}
Types == {"int", "string"}
Values == {"5", "x"}

RECURSIVE SeqsUpTo(_, _)
SeqsUpTo(S, n) ==
    IF n = 0 THEN {<<>>}
    ELSE SeqsUpTo(S, n - 1) \cup
         {Append(s, x) : s \in {t \in SeqsUpTo(S, n - 1) : Len(t) = n - 1}, x \in S}

NoArgs == [inst |-> "", yaml |-> "", select |-> "", input |-> ""]
NoSchema == [schema |-> EmptySchema, keys |-> <<>>]
NoPayload == [event |-> "none"]
NoReq == [op |-> "none"]

\* web.json_response({"success": success}) of a handler; success is "error"
\* when an exception leaves the handler (HTTP 500)
NoResponse == [op |-> "none"]
json_response(op, success) == [op |-> op, success |-> success]

\* The objects of a class: the one the module keeps in _instance (made by
\* get_instance on import), the one the class keeps in cls._instance (made
\* by _get_instance) and one the host makes for a node of the graph
StoreClasses == {"NS_FlexPreset", "NS_PromptList"}
StoreSlots == {"module", "class", "host"}
StoreObjects == StoreClasses \X StoreSlots

PromptDocuments == {"a.yaml", "default.yaml"}
NoEvent == [kind |-> "none"]
NoCall == [outcome |-> "none"]

InitialDocument ==
    yaml_dump(<< <<"p", Preset(<< <<"a", Field("int", "5")>>,
                                  <<"b", Field("string", "x")>> >>)>> >>)

\* NS_FlexPreset's handlers and threads at rest
InitProcess ==
    /\ clock = 1
    /\ dyn_out = EmptySchema
    /\ RETURN_TYPES = DefaultSchema.outputs /\ RETURN_NAMES = DefaultSchema.names
    /\ workflow_loading = FALSE
    /\ emitted = NoPayload
    /\ r_pc = "idle" /\ r_args = NoArgs /\ r_values = EmptyMap
    /\ r_schema = NoSchema /\ r_keys = <<>> /\ r_result = <<>>
    /\ e_pc = "none" /\ e_data = NoTask
    /\ h_pc = "idle" /\ h_req = NoReq /\ h_data = NoData /\ response = NoResponse
    /\ w_pc = "idle" /\ w_todo = <<>> /\ w_file = "" /\ w_bad = ""
    /\ s_pc = "none" /\ s_tmp = Absent
    /\ ops = 0

\* ... beside an NS_PromptList with an empty directory, every object made
\* and watching
InitCommon ==
    /\ InitProcess
    /\ pl_files = [n \in PromptDocuments |-> Absent]
    /\ pl_pc = "idle" /\ pl_data = NoData
    /\ made = StoreObjects
    /\ observer = [o \in StoreObjects |-> "alive"]
    /\ w_event = NoEvent /\ shutdown_call = NoCall

\* The presets directory holding a.yaml: every name a file can get
Directory(bytes) == [n \in YamlNames |-> IF n = "a.yaml" THEN bytes ELSE Absent]

\* The same directory when no file of it is ever unparsable: nothing is
\* quarantined, so only the documents themselves can exist
PlainDirectory(bytes) ==
    [n \in Documents \cup {"default.yaml"} |-> IF n = "a.yaml" THEN bytes ELSE Absent]

Init ==
    /\ InitCommon
    /\ panel_order = [i \in Instances |-> <<>>]
    /\ files = PlainDirectory(InitialDocument)

\* Init with room for the quarantine copies
InitStore ==
    /\ InitCommon
    /\ panel_order = [i \in Instances |-> <<>>]
    /\ files = Directory(InitialDocument)

-----------------------------------------------------------------------------
(* Evaluation thread: NS_FlexPreset.run and the _ensure_title_exists it    *)
(* issues.  The thread is not the server's, so its steps interleave with   *)
(* the request handlers.                                                   *)

RunTitle == title_to_use(r_args.select, r_args.input)

\* Lines 757-776.  deferred: the loop is running and run only creates the
\* task (line 770); otherwise run waits for _ensure_title_exists.
RunStart(inst, yaml, select, input, deferred) ==
    /\ r_pc = "idle" /\ e_pc = "none" /\ ops < MaxOps
    /\ ops' = ops + 1
    /\ r_args' = [inst |-> inst, yaml |-> yaml, select |-> select, input |-> input]
    /\ IF title_to_use(select, input) # "" /\ yaml # ""
       THEN /\ e_pc' = "read"
            /\ e_data' = [yaml |-> yaml, title |-> title_to_use(select, input), data |-> NoData]
            /\ r_pc' = (IF deferred THEN "values" ELSE "ensure")
       ELSE e_pc' = "none" /\ e_data' = NoTask /\ r_pc' = "values"
    /\ UNCHANGED <<class_vars, promptlist_vars, lifecycle_vars,
                   files, clock, panel_order, dyn_out, workflow_loading, emitted,
                   r_values, r_schema, r_keys, r_result,
                   h_pc, h_req, h_data, response, w_pc, w_todo, w_file, w_bad, s_pc, s_tmp>>

\* What is left of the coroutine when it returns ok: the value that run is
\* waiting for (lines 773, 776); nobody holds the result of the task of
\* line 770
EnsureResult(ok) == IF r_pc = "ensure" THEN EnsureReturned(ok) ELSE NoTask

\* _ensure_title_exists up to its await of _save_yaml
EnsureRead ==
    /\ e_pc = "read"
    /\ LET res == ensure_title_data(files, e_data.yaml, e_data.title)
       IN IF res.write
          THEN e_pc' = "save" /\ e_data' = [e_data EXCEPT !.data = res.data]
          ELSE e_pc' = "none" /\ e_data' = EnsureResult(res.ok)
    /\ UNCHANGED <<class_vars, promptlist_vars, lifecycle_vars,
                   files, clock, panel_order, dyn_out, workflow_loading, emitted,
                   r_pc, r_args, r_values, r_schema, r_keys, r_result,
                   h_pc, h_req, h_data, response, w_pc, w_todo, w_file, w_bad, s_pc, s_tmp, ops>>

\* _ensure_title_exists: await self._save_yaml(yaml_file, data)
EnsureSave ==
    /\ e_pc = "save"
    /\ files' = _save_yaml(files, e_data.yaml, e_data.data)
    /\ e_pc' = "none" /\ e_data' = EnsureResult(TRUE)
    /\ UNCHANGED <<class_vars, promptlist_vars, lifecycle_vars,
                   clock, panel_order, dyn_out, workflow_loading, emitted,
                   r_pc, r_args, r_values, r_schema, r_keys, r_result,
                   h_pc, h_req, h_data, response, w_pc, w_todo, w_file, w_bad, s_pc, s_tmp, ops>>

\* _ensure_title_exists: _save_yaml raises (the disk is full, the directory
\* is gone), the except clause of lines 655-657 returns False
EnsureSaveRaises ==
    /\ e_pc = "save"
    /\ e_pc' = "none" /\ e_data' = EnsureResult(FALSE)
    /\ UNCHANGED <<class_vars, promptlist_vars, lifecycle_vars,
                   files, clock, panel_order, dyn_out, workflow_loading, emitted,
                   r_pc, r_args, r_values, r_schema, r_keys, r_result,
                   h_pc, h_req, h_data, response, w_pc, w_todo, w_file, w_bad, s_pc, s_tmp, ops>>

\* Line 779
RunValues ==
    /\ r_pc = "values" \/ (r_pc = "ensure" /\ e_pc = "none")
    /\ r_values' = _get_values_from_yaml(files, r_args.yaml, RunTitle)
    /\ r_pc' = "resolve"
    /\ e_data' = (IF e_pc = "none" THEN NoTask ELSE e_data)   \* the result is dropped
    /\ UNCHANGED <<class_vars, promptlist_vars, lifecycle_vars,
                   files, clock, panel_order, dyn_out, workflow_loading, emitted,
                   r_args, r_schema, r_keys, r_result, e_pc,
                   h_pc, h_req, h_data, response, w_pc, w_todo, w_file, w_bad, s_pc, s_tmp, ops>>

\* The singleton's fields after a call of dynamic_output_types
StoreSchema(res) == IF res.stored THEN res.schema ELSE dyn_out
StoreOrder(res) == [panel_order EXCEPT !["singleton"] = res.order]

\* The class attributes after a call of dynamic_output_types (lines 203-204,
\* 217-218, 277-278); the call that returns at line 197 assigns neither
StoreAttributes(stored, schema) ==
    /\ RETURN_TYPES' = (IF stored THEN schema.outputs ELSE RETURN_TYPES)
    /\ RETURN_NAMES' = (IF stored THEN schema.names ELSE RETURN_NAMES)

\* Lines 783-785
RunResolve ==
    /\ r_pc = "resolve"
    /\ LET res == dynamic_output_types(files, panel_order["singleton"], workflow_loading,
                                       r_args.yaml, r_args.select, r_args.input)
       IN /\ r_schema' = [schema |-> res.schema, keys |-> res.keys]
          /\ dyn_out' = StoreSchema(res)
          /\ StoreAttributes(res.stored, res.schema)
          /\ panel_order' = StoreOrder(res)
    /\ r_pc' = "convert"
    /\ UNCHANGED <<promptlist_vars, lifecycle_vars,
                   files, clock, workflow_loading, emitted,
                   r_args, r_values, r_keys, r_result, e_pc, e_data,
                   h_pc, h_req, h_data, response, w_pc, w_todo, w_file, w_bad, s_pc, s_tmp, ops>>

\* Lines 787-853
RunConvert ==
    /\ r_pc = "convert"
    /\ LET res == RunTuple(panel_order[r_args.inst], r_values, r_schema.schema.outputs)
       IN /\ r_keys' = RunKeys(panel_order[r_args.inst], r_values)
          /\ IF res.crashed
             THEN r_pc' = "crashed" /\ r_result' = <<>>
             ELSE IF res.raised
             THEN r_pc' = "raised" /\ r_result' = <<>>
             ELSE r_pc' = "done" /\ r_result' = res.tuple
    /\ UNCHANGED <<class_vars, promptlist_vars, lifecycle_vars,
                   files, clock, panel_order, dyn_out, workflow_loading, emitted,
                   r_args, r_values, r_schema, e_pc, e_data,
                   h_pc, h_req, h_data, response, w_pc, w_todo, w_file, w_bad, s_pc, s_tmp, ops>>

\* run has returned its tuple, or raised
RunReturn ==
    /\ r_pc \in {"done", "raised", "crashed"}
    /\ r_pc' = "idle" /\ r_args' = NoArgs /\ r_values' = EmptyMap
    /\ r_schema' = NoSchema /\ r_keys' = <<>> /\ r_result' = <<>>
    /\ UNCHANGED <<class_vars, promptlist_vars, lifecycle_vars,
                   files, clock, panel_order, dyn_out, workflow_loading, emitted,
                   e_pc, e_data,
                   h_pc, h_req, h_data, response, w_pc, w_todo, w_file, w_bad, s_pc, s_tmp, ops>>

-----------------------------------------------------------------------------
(* refresh_enums as one pass (lines 360-382): the files it leaves behind   *)

\* sorted(yaml_files): "a.yaml" < "bad_..." < "default.yaml", and the bad
\* names order by timestamp, then by the name they wrap
RECURSIVE ConcatAll(_)
ConcatAll(ss) == IF ss = <<>> THEN <<>> ELSE Head(ss) \o ConcatAll(Tail(ss))

RECURSIVE SortedNames(_)
SortedNames(d) ==
    IF d = 0 THEN <<"a.yaml", "default.yaml">>
    ELSE LET inner == SortedNames(d - 1)
         IN <<"a.yaml">>
            \o ConcatAll([t \in 1..MaxClock |->
                   [i \in 1..Len(inner) |-> BadName(t, inner[i])]])
            \o <<"default.yaml">>
SortedYamlNames == SortedNames(MaxBadDepth)

\* _get_yaml_files, lines 291-303: the listing, after creating default.yaml
\* in an empty directory
Listing(fs) == SelectSeq(SortedYamlNames, LAMBDA n : n \in DOMAIN fs /\ fs[n] # Absent)
_get_yaml_files(fs) ==
    IF Listing(fs) = <<>>
    THEN [fs EXCEPT !["default.yaml"] = DefaultDocument]
    ELSE fs

\* The bad_<ts>_ chain is followed MaxBadDepth deep
Quarantinable == NamesUpTo(MaxBadDepth - 1)
CanQuarantine(name) == name \in Quarantinable

\* _handle_corrupt_yaml, lines 337-342.  shutil.move is os.rename
\* (it replaces an existing bad file), write_text creates the placeholder
shutil_move(fs, src, dst) == [fs EXCEPT ![dst] = fs[src], ![src] = Absent]
write_text(fs, name, text) == [fs EXCEPT ![name] = text]
_handle_corrupt_yaml(fs, t, name) ==
    write_text(shutil_move(fs, name, BadName(t, name)), name, Placeholder)

\* _get_titles_from_yaml, lines 305-318: the directory after the call
_get_titles_from_yaml(fs, t, name) ==
    IF Exists(fs, name) /\ LoadRaises(fs[name]) /\ CanQuarantine(name)
    THEN _handle_corrupt_yaml(fs, t, name)
    ELSE fs

\* list(values.keys()) with values None: AttributeError leaves refresh_enums
ValuesRaise(fs, name) ==
    /\ Exists(fs, name) /\ ~LoadRaises(fs[name])
    /\ \E i \in 1..Len(ReadData(fs, name)) :
          PresetValues(ReadData(fs, name), ReadData(fs, name)[i][1]).tag # "map"

RECURSIVE RefreshLoop(_, _, _)
RefreshLoop(fs, t, todo) ==
    IF todo = <<>> THEN [files |-> fs, raised |-> FALSE]
    ELSE LET after == _get_titles_from_yaml(fs, t, Head(todo))
         IN IF ValuesRaise(after, Head(todo))
            THEN [files |-> after, raised |-> TRUE]
            ELSE RefreshLoop(after, t, Tail(todo))

refresh_enums(fs, t) ==
    LET listed == _get_yaml_files(fs)
    IN RefreshLoop(listed, t, Listing(listed))

-----------------------------------------------------------------------------
(* Server thread: the request handlers of _register_socket_handlers.  A    *)
(* handler never yields to the loop between its first and last statement,  *)
(* so one request is in progress at a time; the evaluation thread runs     *)
(* between its steps.                                                      *)

Orders == SeqsUpTo(Keys, MaxOrderLen)

\* re.match(TYPE_REGEX[value_type], str(value)) over the values of the model
TYPE_REGEX(value_type) ==
    IF value_type = "int" THEN IntLiterals
    ELSE IF value_type = "float" THEN FloatLiterals
    ELSE Values \cup {""}

_validate_value_type(value_type, value) ==
    IF value_type \notin {"int", "float", "string"} THEN FALSE
    ELSE value \in TYPE_REGEX(value_type)

\* The bug of refusing a value that does not match its type
after_validation_reject(valid, res) ==
    IF valid THEN res ELSE [ok |-> FALSE, data |-> NoData]

\* lines 458-459 and 486-487: a mismatch prints a warning and the handler
\* goes on with the result of _add_value
after_validation(valid, res) == res

\* The payload of "ns_flexpreset_set_widgets" after a mutation
WidgetsPayload(fs, req) ==
    [event |-> "set_widgets", op |-> req.op, node_id |-> req.node_id,
     data |-> _get_prompt_data(fs, req.yaml, req.title)]

\* /ns_flexpreset/value/add and /value/update up to line 461/489's save
AddValue(op, title, key_name, key_type, key_value, update_outputs, node_id) ==
    /\ h_pc = "idle" /\ ops < MaxOps
    /\ ops' = ops + 1
    /\ LET res == after_validation(_validate_value_type(key_type, key_value),
                    add_value_data(files, "a.yaml", title, key_name, key_type, key_value))
       IN IF res.ok
          THEN /\ h_pc' = "save" /\ h_data' = res.data
               /\ h_req' = [op |-> op, yaml |-> "a.yaml", title |-> title,
                            key_name |-> key_name, key_type |-> key_type,
                            key_value |-> key_value, node_id |-> node_id,
                            refresh |-> (op = "add" \/ update_outputs)]
               /\ UNCHANGED response
          ELSE /\ response' = json_response(op, "false")
               /\ UNCHANGED <<h_pc, h_data, h_req>>
    /\ UNCHANGED <<class_vars, promptlist_vars, lifecycle_vars,
                   files, clock, panel_order, dyn_out, workflow_loading, emitted,
                   r_pc, r_args, r_values, r_schema, r_keys, r_result, e_pc, e_data,
                   w_pc, w_todo, w_file, w_bad, s_pc, s_tmp>>

\* /ns_flexpreset/value/delete, lines 505-519
DeleteValue(title, key_name, node_id) ==
    /\ h_pc = "idle" /\ ops < MaxOps
    /\ ops' = ops + 1
    /\ panel_order' = [panel_order EXCEPT !["singleton"] =
                          IF Contains(@, key_name) THEN ListRemove(@, key_name) ELSE @]
    /\ LET res == delete_value_data(files, "a.yaml", title, key_name)
       IN IF res.ok
          THEN /\ h_pc' = "save" /\ h_data' = res.data
               /\ h_req' = [op |-> "delete", yaml |-> "a.yaml", title |-> title,
                            key_name |-> key_name, node_id |-> node_id,
                            refresh |-> TRUE]
               /\ UNCHANGED response
          ELSE /\ response' = json_response("delete", "false")
               /\ UNCHANGED <<h_pc, h_data, h_req>>
    /\ UNCHANGED <<class_vars, promptlist_vars, lifecycle_vars,
                   files, clock, dyn_out, workflow_loading, emitted,
                   r_pc, r_args, r_values, r_schema, r_keys, r_result, e_pc, e_data,
                   w_pc, w_todo, w_file, w_bad, s_pc, s_tmp>>

\* /ns_flexpreset/value/update_key, lines 535-555; new_order = <<>> stands
\* for a request without panel_order (or with an empty one)
UpdateKey(title, old_key, new_key, new_order, node_id) ==
    /\ h_pc = "idle" /\ ops < MaxOps
    /\ ops' = ops + 1
    /\ panel_order' = [panel_order EXCEPT !["singleton"] =
                          IF new_order # <<>> /\ Contains(@, old_key) THEN new_order
                          ELSE IF Contains(@, old_key) THEN ListReplaceFirst(@, old_key, new_key)
                          ELSE @]
    /\ LET res == update_key_name_data(files, "a.yaml", title, old_key, new_key)
       IN IF res.ok
          THEN /\ h_pc' = "save" /\ h_data' = res.data
               /\ h_req' = [op |-> "update_key", yaml |-> "a.yaml", title |-> title,
                            old_key |-> old_key, new_key |-> new_key,
                            node_id |-> node_id, refresh |-> TRUE]
               /\ UNCHANGED response
          ELSE /\ response' = json_response("update_key", "false")
               /\ UNCHANGED <<h_pc, h_data, h_req>>
    /\ UNCHANGED <<class_vars, promptlist_vars, lifecycle_vars,
                   files, clock, dyn_out, workflow_loading, emitted,
                   r_pc, r_args, r_values, r_schema, r_keys, r_result, e_pc, e_data,
                   w_pc, w_todo, w_file, w_bad, s_pc, s_tmp>>

\* What follows a successful save in a mutation handler (lines 462-468,
\* 490-499, 520-529, 556-565): the resolver, refresh_enums and the broadcast;
\* update skips all three when update_outputs is false.  An exception of
\* refresh_enums leaves the handler before the broadcast.
PostMutation(saved, req) ==
    LET res == dynamic_output_types(saved, panel_order["singleton"], workflow_loading,
                                    req.yaml, req.title, req.title)
        refreshed == refresh_enums(saved, clock)
    IN IF req.refresh
       THEN [files |-> refreshed.files,
             dyn_out |-> StoreSchema(res), stored |-> res.stored,
             panel_order |-> StoreOrder(res),
             emitted |-> IF refreshed.raised THEN emitted
                         ELSE WidgetsPayload(refreshed.files, req),
             success |-> IF refreshed.raised THEN "error" ELSE "true"]
       ELSE [files |-> saved, dyn_out |-> dyn_out, stored |-> FALSE,
             panel_order |-> panel_order, emitted |-> emitted, success |-> "true"]

\* The rest of a mutation handler: _save_yaml and what follows it
HandlerSave ==
    /\ h_pc = "save"
    /\ LET post == PostMutation(_save_yaml(files, h_req.yaml, h_data), h_req)
       IN /\ files' = post.files
          /\ dyn_out' = post.dyn_out
          /\ StoreAttributes(post.stored, post.dyn_out)
          /\ panel_order' = post.panel_order
          /\ emitted' = post.emitted
          /\ response' = json_response(h_req.op, post.success)
    /\ h_pc' = "idle" /\ h_req' = NoReq /\ h_data' = NoData
    /\ UNCHANGED <<promptlist_vars, lifecycle_vars,
                   clock, workflow_loading,
                   r_pc, r_args, r_values, r_schema, r_keys, r_result, e_pc, e_data,
                   w_pc, w_todo, w_file, w_bad, s_pc, s_tmp, ops>>

\* The bug of keeping the tracker when the list sent is empty
UpdatePanelOrder_unless_empty(new_order) ==
    /\ h_pc = "idle" /\ ops < MaxOps
    /\ ops' = ops + 1
    /\ panel_order' = [panel_order EXCEPT !["singleton"] =
                          IF new_order = <<>> THEN @ ELSE new_order]
    /\ response' = json_response("update_panel_order", "true")
    /\ UNCHANGED <<class_vars, promptlist_vars, lifecycle_vars,
                   files, clock, dyn_out, workflow_loading, emitted,
                   r_pc, r_args, r_values, r_schema, r_keys, r_result, e_pc, e_data,
                   h_pc, h_req, h_data, w_pc, w_todo, w_file, w_bad, s_pc, s_tmp>>

\* /ns_flexpreset/update_panel_order, lines 578-589
UpdatePanelOrder(new_order) ==
    /\ h_pc = "idle" /\ ops < MaxOps
    /\ ops' = ops + 1
    /\ panel_order' = [panel_order EXCEPT !["singleton"] = new_order]
    /\ response' = json_response("update_panel_order", "true")
    /\ UNCHANGED <<class_vars, promptlist_vars, lifecycle_vars,
                   files, clock, dyn_out, workflow_loading, emitted,
                   r_pc, r_args, r_values, r_schema, r_keys, r_result, e_pc, e_data,
                   h_pc, h_req, h_data, w_pc, w_todo, w_file, w_bad, s_pc, s_tmp>>

\* /ns_flexpreset/get_prompt, lines 410-424: with init_outputs the flag is
\* set and refresh_enums runs; an exception of refresh_enums ends the handler
GetPromptBegin(title, init_outputs) ==
    /\ h_pc = "idle" /\ ops < MaxOps
    /\ ops' = ops + 1
    /\ LET refreshed == refresh_enums(files, clock)
       IN IF init_outputs
          THEN /\ workflow_loading' = TRUE
               /\ files' = refreshed.files
               /\ IF refreshed.raised
                  THEN /\ response' = json_response("get_prompt", "error")
                       /\ UNCHANGED <<h_pc, h_req>>
                  ELSE /\ h_pc' = "get_prompt"
                       /\ h_req' = [op |-> "get_prompt", yaml |-> "a.yaml",
                                    title |-> title, init |-> TRUE]
                       /\ UNCHANGED response
          ELSE /\ h_pc' = "get_prompt"
               /\ h_req' = [op |-> "get_prompt", yaml |-> "a.yaml",
                            title |-> title, init |-> FALSE]
               /\ UNCHANGED <<workflow_loading, files, response>>
    /\ UNCHANGED <<class_vars, promptlist_vars, lifecycle_vars,
                   clock, panel_order, dyn_out, emitted,
                   r_pc, r_args, r_values, r_schema, r_keys, r_result, e_pc, e_data,
                   h_data, w_pc, w_todo, w_file, w_bad, s_pc, s_tmp>>

\* get_prompt, lines 426-442
GetPromptEnd ==
    /\ h_pc = "get_prompt"
    /\ LET res == dynamic_output_types(files, panel_order["singleton"], workflow_loading,
                                       h_req.yaml, h_req.title, h_req.title)
       IN /\ dyn_out' = StoreSchema(res)
          /\ StoreAttributes(res.stored, res.schema)
          /\ panel_order' = StoreOrder(res)
          /\ emitted' = [event |-> "set_widgets", op |-> "get_prompt",
                         data |-> _get_prompt_data(files, h_req.yaml, h_req.title),
                         outputs |-> res.schema.outputs,
                         output_names |-> res.schema.names]
    /\ workflow_loading' = (IF h_req.init THEN FALSE ELSE workflow_loading)
    /\ response' = json_response("get_prompt", "true")
    /\ h_pc' = "idle" /\ h_req' = NoReq
    /\ UNCHANGED <<promptlist_vars, lifecycle_vars,
                   files, clock,
                   r_pc, r_args, r_values, r_schema, r_keys, r_result, e_pc, e_data,
                   h_data, w_pc, w_todo, w_file, w_bad, s_pc, s_tmp, ops>>

-----------------------------------------------------------------------------
(* Evaluation against the mutation requests *)

Titles == {"p", ""}

\* panel_order of an update_key request: none, or the one name shown
RenameOrders == SeqsUpTo(Keys, 1)

Next ==
    \/ \E inst \in Instances, yaml \in {"a.yaml"}, select \in Titles,
          input \in {"", "q"}, deferred \in BOOLEAN :
            RunStart(inst, yaml, select, input, deferred)
    \/ EnsureRead
    \/ EnsureSave
    \/ RunValues
    \/ RunResolve
    \/ RunConvert
    \/ RunReturn
    \/ \E k \in Keys, t \in Types, v \in Values :
            AddValue("add", "p", k, t, v, TRUE, "n1")
    \/ \E k \in Keys, t \in Types, v \in Values, u \in BOOLEAN :
            AddValue("update", "p", k, t, v, u, "n1")
    \/ \E k \in Keys : DeleteValue("p", k, "n1")
    \/ \E old \in Keys, new \in Keys \cup {"c", ""}, o \in RenameOrders :
            UpdateKey("p", old, new, o, "n1")
    \/ HandlerSave
    \/ \E o \in Orders : UpdatePanelOrder(o)
    \/ \E title \in Titles, init \in BOOLEAN : GetPromptBegin(title, init)
    \/ GetPromptEnd

Spec == Init /\ [][Next]_vars

-----------------------------------------------------------------------------
(* The schema resolver as a function of the panel and the tracker: the     *)
(* panel of preset "p" and the singleton's _panel_order are drawn from     *)
(* bounded sets and dynamic_output_types is applied to them.               *)

MaxFields == 3       \* fields of the panel
MaxTracker == 2      \* entries of the tracker

ResolveKeys == {"a", "b", "c"}
ResolveEntries ==
    { Field("int", "5"), Field("float", "1.5"), Field("string", "x"),
      Field("bool", "x"),
      [tag |-> "map", value |-> "x"],      \* a field without a type key
      ScalarNode }                         \* an entry that is not a mapping

Distinct(s) == \A i, j \in 1..Len(s) : s[i] = s[j] => i = j

Panels ==
    { [tag |-> "map", items |-> [i \in 1..Len(ks) |-> <<ks[i], es[i]>>]] :
        <<ks, es>> \in { <<k, e>> \in SeqsUpTo(ResolveKeys, MaxFields)
                                       \X SeqsUpTo(ResolveEntries, MaxFields) :
                            Distinct(k) /\ Len(k) = Len(e) } }
    \cup {NullNode}

InitResolve ==
    /\ InitCommon
    /\ \E order \in SeqsUpTo(ResolveKeys \cup {"z"}, MaxTracker) :
          panel_order = [i \in Instances |-> IF i = "singleton" THEN order ELSE <<>>]
    /\ \E values \in Panels :
          files = Directory(yaml_dump(<< <<"p", [tag |-> "map", values |-> values]>> >>))

\* dynamic_output_types("a.yaml", "p", "")
ResolveCall ==
    /\ r_pc = "idle"
    /\ r_args' = [inst |-> "singleton", yaml |-> "a.yaml", select |-> "p", input |-> ""]
    /\ LET res == dynamic_output_types(files, panel_order["singleton"], workflow_loading,
                                       "a.yaml", "p", "")
       IN /\ r_schema' = [schema |-> res.schema, keys |-> res.keys]
          /\ dyn_out' = StoreSchema(res)
          /\ StoreAttributes(res.stored, res.schema)
          /\ panel_order' = StoreOrder(res)
    /\ r_pc' = "resolved"
    /\ UNCHANGED <<promptlist_vars, lifecycle_vars,
                   files, clock, workflow_loading, emitted,
                   r_values, r_keys, r_result, e_pc, e_data,
                   h_pc, h_req, h_data, response, w_pc, w_todo, w_file, w_bad, s_pc, s_tmp, ops>>

NextResolve == ResolveCall

SpecResolve == InitResolve /\ [][NextResolve]_vars

-----------------------------------------------------------------------------
(* The store at the level of the file system: _save_yaml step by step, the *)
(* watcher thread's refresh_enums step by step, edits made outside the     *)
(* process, and an evaluation that reads meanwhile.                        *)

GarbageIds == {1, 2}

\* tempfile.NamedTemporaryFile(dir=presets_dir, delete=False) + yaml.dump:
\* the directory is left as it is, the dump goes to the temp file
\* (the bug of dumping straight into yaml_path)
write_in_place(fs, yaml_file, data) ==
    [files |-> [fs EXCEPT ![yaml_file] = yaml_dump(data)], tmp |-> yaml_dump(data)]

write_tmp(fs, yaml_file, data) == [files |-> fs, tmp |-> yaml_dump(data)]

\* _save_yaml, lines 621-630
SaveTmp ==
    /\ h_pc = "save" /\ s_pc \in {"none", "interrupted"}
    /\ LET w == write_tmp(files, h_req.yaml, h_data)
       IN files' = w.files /\ s_tmp' = w.tmp
    /\ s_pc' = "tmp"
    /\ UNCHANGED <<class_vars, promptlist_vars, lifecycle_vars,
                   clock, panel_order, dyn_out, workflow_loading, emitted,
                   r_pc, r_args, r_values, r_schema, r_keys, r_result, e_pc, e_data,
                   h_pc, h_req, h_data, response, w_pc, w_todo, w_file, w_bad, ops>>

\* _save_yaml, line 633, and the rest of the handler
SaveReplace ==
    /\ h_pc = "save" /\ s_pc = "tmp"
    /\ LET post == PostMutation(os_replace(files, h_req.yaml, s_tmp), h_req)
       IN /\ files' = post.files
          /\ dyn_out' = post.dyn_out
          /\ StoreAttributes(post.stored, post.dyn_out)
          /\ panel_order' = post.panel_order
          /\ emitted' = post.emitted
          /\ response' = json_response(h_req.op, post.success)
    /\ s_pc' = "none" /\ s_tmp' = Absent
    /\ h_pc' = "idle" /\ h_req' = NoReq /\ h_data' = NoData
    /\ UNCHANGED <<promptlist_vars, lifecycle_vars,
                   clock, workflow_loading,
                   r_pc, r_args, r_values, r_schema, r_keys, r_result, e_pc, e_data,
                   w_pc, w_todo, w_file, w_bad, ops>>

\* The bug of reporting a failed write as a success
mutation_except_true == "true"

\* except Exception as e: print(...); return False
mutation_except == "false"

\* The write is interrupted before os.replace (yaml.dump or os.replace
\* raises): the temp file stays, the mutation returns False and the handler
\* answers without the resolver, refresh_enums or the broadcast
SaveInterrupt ==
    /\ h_pc = "save" /\ s_pc = "tmp"
    /\ s_pc' = "interrupted"
    /\ response' = json_response(h_req.op, mutation_except)
    /\ h_pc' = "idle" /\ h_req' = NoReq /\ h_data' = NoData
    /\ UNCHANGED <<class_vars, promptlist_vars, lifecycle_vars,
                   files, clock, panel_order, dyn_out, workflow_loading, emitted,
                   r_pc, r_args, r_values, r_schema, r_keys, r_result, e_pc, e_data,
                   w_pc, w_todo, w_file, w_bad, s_tmp, ops>>

\* refresh_enums on the watcher thread: _get_yaml_files, lines 291-303.
\* write_text opens (creates or truncates) the file, then writes it.
WatchStart ==
    /\ w_pc = "idle"
    /\ IF Listing(files) = <<>>
       THEN /\ files' = write_text(files, "default.yaml", Truncated)
            /\ w_pc' = "default" /\ w_todo' = <<>>
       ELSE /\ w_pc' = "titles" /\ w_todo' = Listing(files)
            /\ UNCHANGED files
    /\ UNCHANGED <<class_vars, promptlist_vars, lifecycle_vars,
                   clock, panel_order, dyn_out, workflow_loading, emitted,
                   r_pc, r_args, r_values, r_schema, r_keys, r_result, e_pc, e_data,
                   h_pc, h_req, h_data, response, w_file, w_bad, s_pc, s_tmp, ops>>

WatchDefault ==
    /\ w_pc = "default"
    /\ files' = write_text(files, "default.yaml", DefaultDocument)
    /\ w_pc' = "titles" /\ w_todo' = <<"default.yaml">>
    /\ UNCHANGED <<class_vars, promptlist_vars, lifecycle_vars,
                   clock, panel_order, dyn_out, workflow_loading, emitted,
                   r_pc, r_args, r_values, r_schema, r_keys, r_result, e_pc, e_data,
                   h_pc, h_req, h_data, response, w_file, w_bad, s_pc, s_tmp, ops>>

\* One turn of the loop of refresh_enums, lines 371-380: _get_titles_from_yaml
\* up to shutil.move when the file is corrupt, else the values of its titles
WatchTitles ==
    /\ w_pc = "titles" /\ w_todo # <<>>
    /\ LET name == Head(w_todo)
       IN IF Exists(files, name) /\ LoadRaises(files[name]) /\ CanQuarantine(name)
          THEN /\ files' = shutil_move(files, name, BadName(clock, name))
               /\ w_file' = name /\ w_bad' = BadName(clock, name)
               /\ w_pc' = "moved"
               /\ UNCHANGED w_todo
          ELSE /\ IF ValuesRaise(files, name)
                  THEN w_pc' = "idle" /\ w_todo' = <<>>
                  ELSE w_pc' = "titles" /\ w_todo' = Tail(w_todo)
               /\ UNCHANGED <<files, w_file, w_bad>>
    /\ UNCHANGED <<class_vars, promptlist_vars, lifecycle_vars,
                   clock, panel_order, dyn_out, workflow_loading, emitted,
                   r_pc, r_args, r_values, r_schema, r_keys, r_result, e_pc, e_data,
                   h_pc, h_req, h_data, response, s_pc, s_tmp, ops>>

\* _handle_corrupt_yaml, line 342: write_text opens the new file ...
WatchTruncate ==
    /\ w_pc = "moved"
    /\ files' = write_text(files, w_file, Truncated)
    /\ w_pc' = "created"
    /\ UNCHANGED <<class_vars, promptlist_vars, lifecycle_vars,
                   clock, panel_order, dyn_out, workflow_loading, emitted,
                   r_pc, r_args, r_values, r_schema, r_keys, r_result, e_pc, e_data,
                   h_pc, h_req, h_data, response, w_todo, w_file, w_bad, s_pc, s_tmp, ops>>

\* ... and writes the placeholder; the loop goes on with the next file
WatchPlaceholder ==
    /\ w_pc = "created"
    /\ files' = write_text(files, w_file, Placeholder)
    /\ w_pc' = "titles" /\ w_todo' = Tail(w_todo)
    /\ w_file' = "" /\ w_bad' = ""
    /\ UNCHANGED <<class_vars, promptlist_vars, lifecycle_vars,
                   clock, panel_order, dyn_out, workflow_loading, emitted,
                   r_pc, r_args, r_values, r_schema, r_keys, r_result, e_pc, e_data,
                   h_pc, h_req, h_data, response, s_pc, s_tmp, ops>>

\* refresh_enums, line 382: the pass ends with the broadcast
WatchDone ==
    /\ w_pc = "titles" /\ w_todo = <<>>
    /\ w_pc' = "idle"
    /\ UNCHANGED <<class_vars, promptlist_vars, lifecycle_vars,
                   files, clock, panel_order, dyn_out, workflow_loading, emitted,
                   r_pc, r_args, r_values, r_schema, r_keys, r_result, e_pc, e_data,
                   h_pc, h_req, h_data, response, w_todo, w_file, w_bad, s_pc, s_tmp, ops>>

\* An editor outside the process saves unparsable bytes as a.yaml
ExternalCorrupt(id) ==
    /\ ops < MaxOps
    /\ ops' = ops + 1
    /\ files' = [files EXCEPT !["a.yaml"] = Garbage(id)]
    /\ UNCHANGED <<class_vars, promptlist_vars, lifecycle_vars,
                   clock, panel_order, dyn_out, workflow_loading, emitted,
                   r_pc, r_args, r_values, r_schema, r_keys, r_result, e_pc, e_data,
                   h_pc, h_req, h_data, response, w_pc, w_todo, w_file, w_bad, s_pc, s_tmp>>

\* a.yaml is deleted outside the process
ExternalDelete ==
    /\ ops < MaxOps /\ files["a.yaml"] # Absent
    /\ ops' = ops + 1
    /\ files' = [files EXCEPT !["a.yaml"] = Absent]
    /\ UNCHANGED <<class_vars, promptlist_vars, lifecycle_vars,
                   clock, panel_order, dyn_out, workflow_loading, emitted,
                   r_pc, r_args, r_values, r_schema, r_keys, r_result, e_pc, e_data,
                   h_pc, h_req, h_data, response, w_pc, w_todo, w_file, w_bad, s_pc, s_tmp>>

\* A second passes
Tick ==
    /\ clock < MaxClock
    /\ clock' = clock + 1
    /\ UNCHANGED <<class_vars, promptlist_vars, lifecycle_vars,
                   files, panel_order, dyn_out, workflow_loading, emitted,
                   r_pc, r_args, r_values, r_schema, r_keys, r_result, e_pc, e_data,
                   h_pc, h_req, h_data, response, w_pc, w_todo, w_file, w_bad, s_pc, s_tmp, ops>>

NextStore ==
    \/ RunStart("node", "a.yaml", "p", "", FALSE)
    \/ EnsureRead
    \/ EnsureSave
    \/ RunValues
    \/ RunResolve
    \/ RunConvert
    \/ RunReturn
    \/ AddValue("add", "p", "a", "string", "x", TRUE, "n1")
    \/ DeleteValue("p", "b", "n1")
    \/ UpdateKey("p", "a", "c", <<>>, "n1")
    \/ SaveTmp
    \/ SaveReplace
    \/ SaveInterrupt
    \/ WatchStart
    \/ WatchDefault
    \/ WatchTitles
    \/ WatchTruncate
    \/ WatchPlaceholder
    \/ WatchDone
    \/ \E id \in GarbageIds : ExternalCorrupt(id)
    \/ ExternalDelete
    \/ Tick

SpecStore == InitStore /\ [][NextStore]_vars

-----------------------------------------------------------------------------
(* The mutation requests on their own: the server thread handles one       *)
(* request after the other against a panel of three fields or against an   *)
(* unparsable document, with nothing else running.                         *)

NodeIds == {"n1", "n2"}

ThreeFields ==
    yaml_dump(<< <<"p", Preset(<< <<"a", Field("int", "5")>>,
                                  <<"b", Field("string", "x")>>,
                                  <<"c", Field("int", "5")>> >>)>> >>)

\* type and value of an add or update request: matching, not matching the
\* grammar of the type, and a type that TYPE_REGEX does not know
MutateFields == { <<"string", "5">>, <<"int", "x">>, <<"bool", "5">> }

InitMutate ==
    /\ InitCommon
    /\ \E order \in {<<>>, <<"b", "a">>} :
          panel_order = [i \in Instances |-> IF i = "singleton" THEN order ELSE <<>>]
    /\ \E bytes \in {ThreeFields, Garbage(1)} : files = Directory(bytes)

NextMutate ==
    \/ \E title \in {"p", "q"}, k \in {"b", "d"}, tv \in MutateFields, id \in NodeIds :
            AddValue("add", title, k, tv[1], tv[2], TRUE, id)
    \/ \E k \in {"b", "d"}, tv \in MutateFields, u \in BOOLEAN :
            AddValue("update", "p", k, tv[1], tv[2], u, "n1")
    \/ \E title \in {"p", "q"}, k \in {"b", "d"} : DeleteValue(title, k, "n1")
    \/ \E old \in {"b", "d"}, new \in {"a", "b", "d", ""}, o \in {<<>>, <<"d">>} :
            UpdateKey("p", old, new, o, "n1")
    \/ HandlerSave
    \/ \E o \in Orders : UpdatePanelOrder(o)

SpecMutate == InitMutate /\ [][NextMutate]_vars

-----------------------------------------------------------------------------
(* NS_FlexPreset.run on its own: the panel of preset "p" and the trackers   *)
(* are drawn from bounded sets and run is called on either object, for the *)
(* preset or for a preset that does not exist yet.                         *)

MaxRunFields == 2    \* fields of the panel run converts

RunEntries ==
    { Field("int", "5"), Field("int", "x"), Field("float", "1.5"),
      Field("float", "x"), Field("string", "x") }

RunPanels ==
    { [i \in 1..Len(ks) |-> <<ks[i], es[i]>>] :
        <<ks, es>> \in { <<k, e>> \in SeqsUpTo(ResolveKeys, MaxRunFields)
                                       \X SeqsUpTo(RunEntries, MaxRunFields) :
                            Distinct(k) /\ Len(k) = Len(e) } }

InitRun ==
    /\ InitCommon
    /\ \E order \in {<<>>, <<"b", "a">>} : panel_order = [i \in Instances |-> order]
    /\ \E items \in RunPanels : files = PlainDirectory(yaml_dump(<< <<"p", Preset(items)>> >>))

NextRun ==
    \/ \E inst \in Instances, select \in {"p", "q"} :
            RunStart(inst, "a.yaml", select, "", FALSE)
    \/ EnsureRead
    \/ EnsureSave
    \/ RunValues
    \/ RunResolve
    \/ RunConvert
    \/ RunReturn

SpecRun == InitRun /\ [][NextRun]_vars

-----------------------------------------------------------------------------
(* Properties of the resolver (SpecResolve) *)

ResolvedPanel == PresetValues(ReadData(files, "a.yaml"), "p")
Tracker == panel_order["singleton"]

\* The tracker's names that exist in the panel, then the panel's other names
TrackerFirst(order, items) ==
    SelectSeq(order, LAMBDA k : MapHas(items, k))
    \o SelectSeq(MapKeys(items), LAMBDA k : ~Contains(order, k))

\* The names among keys whose entry is a mapping, i.e. a Field
FieldsOf(keys, items) == SelectSeq(keys, LAMBDA k : MapGet(items, k).tag = "map")

\* C4: the resolved schema lists the tracker's field names that exist in the
\* panel, in tracker order, followed by the panel's remaining fields in
\* on-disk order; tracker [b, a] over on-disk a, b, c resolves to [b, a, c],
\* and an empty tracker resolves to on-disk order.
C4_TrackerThenDiskOrder ==
    (r_pc = "resolved" /\ ResolvedPanel.tag = "map") =>
        LET items == ResolvedPanel.items
            fields == FieldsOf(TrackerFirst(Tracker, items), items)
        IN /\ r_schema.keys = TrackerFirst(Tracker, items)
           /\ Tracker = <<>> => r_schema.keys = MapKeys(items)
           /\ (Tracker = <<"b", "a">> /\ MapKeys(items) = <<"a", "b", "c">>)
                 => r_schema.keys = <<"b", "a", "c">>
           /\ fields # <<>> =>
                 r_schema.schema.names =
                    [i \in 1..Len(fields) |->
                        fields[i] \o "_" \o DeclaredType(MapGet(items, fields[i]))]

C4_Witness ==
    /\ r_pc = "resolved"
    /\ Tracker = <<"b", "a">>
    /\ ResolvedPanel.tag = "map"
    /\ MapKeys(ResolvedPanel.items) = <<"a", "b", "c">>
    /\ r_schema.schema.names = <<"b_string", "a_int", "c_float">>

\* C6: each field processed by the resolver yields the entry named
\* "<field>_<declared_type>" with output type INT for int, FLOAT for float
\* and STRING for any other declared type; a missing type counts as string.
C6_EntryPerField ==
    (r_pc = "resolved" /\ ResolvedPanel.tag = "map") =>
        LET items == ResolvedPanel.items
            fields == FieldsOf(r_schema.keys, items)
        IN fields # <<>> =>
             /\ Len(r_schema.schema.names) = Len(fields)
             /\ Len(r_schema.schema.outputs) = Len(fields)
             /\ \A i \in 1..Len(fields) :
                   LET e == MapGet(items, fields[i])
                       declared == IF "type" \in DOMAIN e THEN e.type ELSE "string"
                   IN /\ r_schema.schema.names[i] = fields[i] \o "_" \o declared
                      /\ r_schema.schema.outputs[i] =
                            CASE declared = "int" -> "INT"
                              [] declared = "float" -> "FLOAT"
                              [] OTHER -> "STRING"

C6_Witness ==
    /\ r_pc = "resolved"
    /\ r_schema.schema.names = <<"a_int", "b_float", "c_string">>
    /\ r_schema.schema.outputs = <<"INT", "FLOAT", "STRING">>
    /\ ResolvedPanel.tag = "map"
    /\ "type" \notin DOMAIN MapGet(ResolvedPanel.items, "c")

-----------------------------------------------------------------------------
(* Properties of run against the mutation requests (Spec) *)

\* The output type that a Python value of the tuple has
SchemaTypeOf(element) ==
    CASE element.py = "int" -> "INT"
      [] element.py = "float" -> "FLOAT"
      [] OTHER -> "STRING"

\* C1: the tuple returned by run has exactly as many elements as the schema
\* that dynamic_output_types resolved during the same call, under every
\* interleaving with add, update, delete and rename requests.
C1_TupleArityIsSchemaArity ==
    r_pc = "done" => Len(r_result) = Len(r_schema.schema.outputs)

\* run returned after a mutation changed the number of fields between its
\* read of the values and its resolution of the schema
C1_Witness ==
    /\ r_pc = "done"
    /\ Truthy(r_values)
    /\ Len(FieldsOf(r_keys, r_values.items)) # Len(r_schema.schema.outputs)
    /\ Len(r_result) = Len(r_schema.schema.outputs)

\* C2: in every run call the key sequence used to convert the values is the
\* key sequence dynamic_output_types used for the schema of that call.
C2_SameKeySequence ==
    r_pc = "done" => r_keys = r_schema.keys

\* C3: the element at every position of the returned tuple has the type of
\* the schema entry at that position.
C3_ElementTypesMatchSchema ==
    r_pc = "done" =>
        \A i \in 1..Len(r_result) :
            i <= Len(r_schema.schema.outputs) =>
                SchemaTypeOf(r_result[i]) = r_schema.schema.outputs[i]

ResolvedAsAmended(schema, yaml, select, input) ==
    LET title == title_to_use(select, input)
        values == _get_values_from_yaml(files, yaml, title)
    IN IF (title = "" \/ yaml = "") /\ workflow_loading
       THEN schema = EmptySchema
       ELSE /\ Len(schema.outputs) >= 1
            /\ Len(schema.names) = Len(schema.outputs)
            /\ (\/ title = "" \/ yaml = "" \/ ~Exists(files, yaml)
                \/ values.tag # "map"
                \/ FieldsOf(MapKeys(values.items), values.items) = <<>>)
                  => (schema.outputs = <<"STRING">> /\ schema.names = <<"output">>)

MutationData(fs, req) ==
    CASE req.op \in {"add", "update"} ->
            add_value_data(fs, req.yaml, req.title, req.key_name, req.key_type, req.key_value)
      [] req.op = "delete" -> delete_value_data(fs, req.yaml, req.title, req.key_name)
      [] req.op = "update_key" ->
            update_key_name_data(fs, req.yaml, req.title, req.old_key, req.new_key)

\* C7: overlapping document-writing operations are serializable, so no
\* committed change is lost: what an operation saves is the operation applied
\* to the document as it is when the save commits.
C7_WritesSerializable ==
    [][ /\ (e_pc = "save" /\ e_pc' = "none")
            => LET now == ensure_title_data(files, e_data.yaml, e_data.title)
               IN IF now.write THEN e_data.data = now.data
                  ELSE files'[e_data.yaml] = files[e_data.yaml]
        /\ (h_pc = "save" /\ h_pc' = "idle")
            => LET now == MutationData(files, h_req)
               IN now.ok /\ h_data = now.data ]_vars

-----------------------------------------------------------------------------
(* Properties of the store at the level of the file system (SpecStore) *)

\* C8: a write interrupted after the temporary file is created and before
\* os.replace leaves the target as it was: neither creating the temporary
\* file nor the interruption changes what a read of the target returns.
C8_InterruptedWriteKeepsTarget ==
    [][ (s_pc' # s_pc /\ s_pc' \in {"tmp", "interrupted"})
            => /\ files'[h_req.yaml] = files[h_req.yaml]
               /\ _get_prompt_data(files', h_req.yaml, h_req.title)
                    = _get_prompt_data(files, h_req.yaml, h_req.title) ]_vars

\* A write of a changed document was interrupted; the target is as it was
C8_Witness ==
    /\ s_pc = "interrupted"
    /\ s_tmp # Absent /\ s_tmp # files["a.yaml"]
    /\ files["a.yaml"] = InitialDocument

\* C9: no reader observes a partially written or transiently missing
\* document: run never reads a document while quarantine has moved it away
\* or while write_text has created it without its content.
C9_NoTransientRead ==
    [][ (r_pc \in {"values", "ensure"} /\ r_pc' = "resolve")
            => /\ ~(w_pc \in {"moved", "created"} /\ w_file = r_args.yaml)
               /\ ~(w_pc = "default" /\ r_args.yaml = "default.yaml") ]_vars

\* C10: once quarantine has put the bytes of a corrupt document into
\* bad_<ts>_<original>, that file holds those bytes after later refreshes.
C10_QuarantineKeepsBytes ==
    [][ /\ (w_pc = "titles" /\ w_pc' = "moved")
            => (Exists(files', w_bad') /\ files'[w_bad'] = files[w_file'])
        /\ \A t \in 1..MaxClock, n \in Documents :
              LoadRaises(files[BadName(t, n)])
                 => files'[BadName(t, n)] = files[BadName(t, n)] ]_vars

-----------------------------------------------------------------------------
(* Properties of the mutation requests (SpecMutate) *)

MutationOps == {"add", "update", "delete", "update_key"}

\* The server thread takes a mutation request in this step: it goes on to
\* save, or it answers at once
MutationRequested ==
    /\ h_pc = "idle" /\ ops' = ops + 1
    /\ h_pc' = "save" \/ response'.op \in MutationOps

\* C11: a mutation that reads a corrupt document recovers it by quarantine
\* and goes on as with an empty document; an add or update is not answered
\* with success:false because of the parse error.
C11_CorruptRecoveredLocally ==
    [][ (MutationRequested /\ LoadRaises(files["a.yaml"]))
            => /\ ~LoadRaises(files'["a.yaml"])
               /\ \E t \in 1..MaxClock : files'[BadName(t, "a.yaml")] = files["a.yaml"]
               /\ (h_pc' = "idle" /\ response'.op \in {"add", "update"})
                     => response'.success = "true" ]_vars

\* The fields of preset title in a.yaml, as an ordered mapping; none when the
\* preset is absent
PanelItems(fs, title) ==
    IF MapHas(ReadData(fs, "a.yaml"), title)
    THEN PresetValues(ReadData(fs, "a.yaml"), title).items
    ELSE <<>>

\* C12: an add or update creates the preset when it is absent; a field that
\* exists is overwritten with the new type and value at its position; a new
\* field is appended after the existing ones; every other field keeps its
\* name, value and place.
C12_AddOverwritesOrAppends ==
    [][ (h_pc = "save" /\ h_pc' = "idle" /\ h_req.op \in {"add", "update"})
            => LET before == PanelItems(files, h_req.title)
                   after == PanelItems(files', h_req.title)
                   k == h_req.key_name
               IN /\ MapHas(ReadData(files', "a.yaml"), h_req.title)
                  /\ MapKeys(after) = IF MapHas(before, k) THEN MapKeys(before)
                                      ELSE Append(MapKeys(before), k)
                  /\ MapGet(after, k) = Field(h_req.key_type, h_req.key_value)
                  /\ \A i \in 1..Len(before) :
                        before[i][1] # k => after[i] = before[i] ]_vars

\* Preset q was created with the new field d, and field b of p was
\* overwritten where it stood
C12_Witness ==
    /\ h_pc = "idle" /\ response = json_response("add", "true")
    /\ PanelItems(files, "q") = << <<"d", Field("string", "5")>> >>
    /\ PanelItems(files, "p") = << <<"a", Field("int", "5")>>,
                                   <<"b", Field("int", "x")>>,
                                   <<"c", Field("int", "5")>> >>

\* C13: a delete request removes the field from the panel and from the
\* tracker when the field is in the selected preset; when it is not, the
\* request answers success:false and leaves the document and the tracker as
\* they were.
C13_DeleteRemovesOrNoOp ==
    [][ /\ (h_pc = "save" /\ h_pc' = "idle" /\ h_req.op = "delete")
            => /\ ~MapHas(PanelItems(files', h_req.title), h_req.key_name)
               /\ ~Contains(panel_order'["singleton"], h_req.key_name)
        /\ (h_pc = "idle" /\ h_pc' = "idle" /\ ops' = ops + 1 /\ response'.op = "delete")
            => /\ response'.success = "false"
               /\ files' = files
               /\ panel_order' = panel_order ]_vars

\* C14: a rename request with old = new, with old absent from the selected
\* panel or with new empty answers success:false and leaves the document and
\* the tracker as they were, with or without a panel_order list.
C14_RenameNoOp ==
    [][ (h_pc = "idle" /\ h_pc' = "idle" /\ ops' = ops + 1 /\ response'.op = "update_key")
            => /\ response'.success = "false"
               /\ files' = files
               /\ panel_order' = panel_order ]_vars

\* The position of key k in an ordered mapping or a list (0 when absent)
IndexOfKey(items, k) ==
    IF MapHas(items, k) THEN CHOOSE i \in 1..Len(items) : items[i][1] = k ELSE 0

\* C15: a successful rename puts new at the position old had in the panel,
\* with old's type and value, the other fields staying as they were; the
\* tracker holds new wherever it held old and no longer holds old.
C15_RenameInPlace ==
    [][ /\ (h_pc = "save" /\ h_pc' = "idle" /\ h_req.op = "update_key")
            => LET before == PanelItems(files, h_req.title)
                   after == PanelItems(files', h_req.title)
                   i == IndexOfKey(before, h_req.old_key)
               IN /\ Len(after) = Len(before)
                  /\ after[i] = <<h_req.new_key, before[i][2]>>
                  /\ \A j \in 1..Len(before) : j # i => after[j] = before[j]
                  /\ ~Contains(panel_order'["singleton"], h_req.old_key)
        /\ (h_pc = "idle" /\ h_pc' = "save" /\ h_req'.op = "update_key")
            => LET held == panel_order["singleton"]
                   holds == panel_order'["singleton"]
               IN /\ Len(holds) = Len(held)
                  /\ \A j \in 1..Len(held) :
                        holds[j] = IF held[j] = h_req'.old_key THEN h_req'.new_key
                                   ELSE held[j] ]_vars

\* C16: an update_panel_order request is always taken, replaces the whole
\* tracker by the list it carries and changes nothing else: no document is
\* written, the stored schema is not recomputed, nothing is broadcast.
C16_SetPanelOrderOnly ==
    \A o \in Orders :
        /\ (h_pc = "idle" /\ ops < MaxOps) => ENABLED UpdatePanelOrder(o)
        /\ ~ENABLED (/\ UpdatePanelOrder(o)
                     /\ ~(/\ panel_order' = [panel_order EXCEPT !["singleton"] = o]
                          /\ files' = files
                          /\ dyn_out' = dyn_out
                          /\ emitted' = emitted
                          /\ workflow_loading' = workflow_loading
                          /\ response'.success = "true"))

\* The tracker was set after a mutation had stored a schema and broadcast
C16_Witness ==
    /\ response = json_response("update_panel_order", "true")
    /\ panel_order["singleton"] = <<"a", "b">>
    /\ dyn_out.outputs # <<>>
    /\ emitted.event = "set_widgets" /\ emitted.op = "add"

\* C17: every add, update, delete or rename answered success:true has, by
\* the time it answers, recomputed the schema of its document and preset and
\* broadcast set-widgets with the refreshed values and the requester's
\* node_id, whatever the request body, update_outputs false included.
C17_SuccessRecomputesAndBroadcasts ==
    [][ (h_pc = "save" /\ h_pc' = "idle" /\ response'.success = "true")
            => LET res == dynamic_output_types(files', panel_order["singleton"],
                                               workflow_loading,
                                               h_req.yaml, h_req.title, h_req.title)
               IN /\ res.stored => dyn_out' = res.schema
                  /\ emitted' = WidgetsPayload(files', h_req)
                  /\ emitted'.node_id = h_req.node_id ]_vars

-----------------------------------------------------------------------------
(* Properties of a failing write (SpecStore) *)

\* C18: when the write step of a mutation fails, the mutation answers
\* success:false, the target document is as it was before the write began,
\* and nothing is recomputed or broadcast for it.
C18_FailedWriteReportsFalse ==
    [][ /\ (h_pc = "save" /\ s_pc # "tmp" /\ s_pc' = "tmp")
            => files'[h_req.yaml] = files[h_req.yaml]
        /\ (s_pc = "tmp" /\ s_pc' = "interrupted")
            => /\ response' = json_response(h_req.op, "false")
               /\ files'[h_req.yaml] = files[h_req.yaml]
               /\ emitted' = emitted
               /\ dyn_out' = dyn_out ]_vars

\* The write of a delete failed: answered false, a.yaml as it was, nothing
\* broadcast
C18_Witness ==
    /\ s_pc = "interrupted" /\ h_pc = "idle"
    /\ response = json_response("delete", "false")
    /\ files["a.yaml"] = InitialDocument
    /\ emitted = NoPayload

-----------------------------------------------------------------------------
(* Validation of add and update requests (SpecMutate) *)

\* C19: an add or update whose value does not match the grammar of its
\* declared type, or whose type is not int, float or string, is not refused:
\* the only refusals are those of an unreadable document, and the field is
\* written with the type and value sent and answered success:true.
C19_MismatchIsWritten ==
    [][ /\ (h_pc = "idle" /\ h_pc' = "idle" /\ ops' = ops + 1
               /\ response'.op \in {"add", "update"})
            => ReadRaises(files, "a.yaml")
        /\ (h_pc = "save" /\ h_pc' = "idle" /\ h_req.op \in {"add", "update"}
               /\ ~_validate_value_type(h_req.key_type, h_req.key_value))
            => /\ MapGet(PanelItems(files', h_req.title), h_req.key_name)
                     = Field(h_req.key_type, h_req.key_value)
               /\ response'.success = "true" ]_vars

\* int "x" and bool "5" were both written
C19_Witness ==
    /\ h_pc = "idle" /\ response.op \in {"add", "update"} /\ response.success = "true"
    /\ MapHas(PanelItems(files, "p"), "d")
    /\ MapGet(PanelItems(files, "p"), "d") = Field("bool", "5")
    /\ MapGet(PanelItems(files, "p"), "b") = Field("int", "x")

-----------------------------------------------------------------------------
(* Properties of the conversion in run (SpecRun) *)

\* The fields run converts whose stored value its declared type refuses
Unconvertible(values) ==
    IF values.tag # "map" THEN {}
    ELSE { i \in 1..Len(values.items) :
             /\ values.items[i][2].tag = "map"
             /\ \/ /\ DeclaredType(values.items[i][2]) = "int"
                   /\ StoredValue(values.items[i][2]) \notin IntLiterals
                \/ /\ DeclaredType(values.items[i][2]) = "float"
                   /\ StoredValue(values.items[i][2]) \notin FloatLiterals }

\* C20: when the preset run has read holds a field whose value cannot be
\* converted to its declared type, run ends with an error and returns no
\* tuple; it returns a tuple only when every field converts.
C20_ConversionFailureIsHard ==
    /\ (r_pc \in {"done", "raised"} /\ Unconvertible(r_values) # {})
          => (r_pc = "raised" /\ r_result = <<>>)
    /\ r_pc = "raised" => Unconvertible(r_values) # {}

\* run raised on a panel whose second field is non-numeric text declared int
C20_Witness ==
    /\ r_pc = "raised" /\ r_result = <<>>
    /\ r_values.items = << <<"a", Field("string", "x")>>, <<"b", Field("int", "x")>> >>

-----------------------------------------------------------------------------
(* run, the resolver and the requests over the shapes a document can have: *)
(* the file a.yaml is missing, empty, unparsable, or holds preset "p" with *)
(* a panel that is empty, null, absent, a scalar, or whose entries are not *)
(* all mappings.                                                           *)

DocumentStates ==
    { Absent,
      Garbage(1),
      yaml_dump(<<>>),
      yaml_dump(<< <<"q", Preset(<<>>)>> >>),
      yaml_dump(<< <<"p", NullNode>> >>),
      yaml_dump(<< <<"p", [tag |-> "map"]>> >>),
      yaml_dump(<< <<"p", [tag |-> "map", values |-> NullNode]>> >>),
      yaml_dump(<< <<"p", [tag |-> "map", values |-> ScalarNode]>> >>),
      yaml_dump(<< <<"p", Preset(<<>>)>> >>),
      yaml_dump(<< <<"p", Preset(<< <<"a", ScalarNode>>, <<"b", Field("int", "5")>> >>)>> >>),
      yaml_dump(<< <<"p", Preset(<< <<"a", Field("int", "x")>> >>)>> >>),
      InitialDocument }

InitDocs ==
    /\ InitCommon
    /\ \E order \in {<<>>, <<"b", "a">>} : panel_order = [i \in Instances |-> order]
    /\ \E bytes \in DocumentStates : files = Directory(bytes)

NextDocs ==
    \/ \E inst \in Instances, yaml \in {"a.yaml", ""}, select \in {"p", ""},
          deferred \in BOOLEAN :
            RunStart(inst, yaml, select, "", deferred)
    \/ EnsureRead
    \/ EnsureSave
    \/ RunValues
    \/ RunResolve
    \/ RunConvert
    \/ RunReturn
    \/ AddValue("add", "p", "b", "int", "5", TRUE, "n1")
    \/ DeleteValue("p", "b", "n1")
    \/ HandlerSave
    \/ \E init \in BOOLEAN : GetPromptBegin("p", init)
    \/ GetPromptEnd

SpecDocs == InitDocs /\ [][NextDocs]_vars

-----------------------------------------------------------------------------
(* Properties of run over the document shapes (SpecDocs) *)

\* C21: run raises only because a stored value cannot be converted to its
\* declared type: whatever the document, the tracker and the interleaved
\* requests, a call that read only convertible values returns a tuple.
C21_RaisesOnlyOnConversion ==
    (r_pc \in {"done", "raised", "crashed"} /\ Unconvertible(r_values) = {})
        => r_pc = "done"

\* The values run converted: one for each field of the values it read that
\* is a mapping, in the order run processed them
ConvertedValues ==
    IF r_values.tag # "map" THEN <<>>
    ELSE LET fields == FieldsOf(r_keys, r_values.items)
         IN [i \in 1..Len(fields) |->
                LET e == MapGet(r_values.items, fields[i])
                    declared == IF "type" \in DOMAIN e THEN e.type ELSE "string"
                    stored == IF "value" \in DOMAIN e THEN e.value ELSE ""
                IN CASE declared = "int" -> PyInt(stored)
                     [] declared = "float" -> PyFloat(stored)
                     [] OTHER -> PyStr(stored)]

TypeZero(output_type) ==
    CASE output_type = "INT" -> PyInt("0")
      [] output_type = "FLOAT" -> PyFloat("0.0")
      [] OTHER -> PyStr("")

\* C22: when run converted m values and resolved a schema of n > m entries,
\* the tuple has n elements, the first m are the converted values and every
\* later position holds the zero value of its schema entry's type; when
\* m > n the tuple is the first n converted values.
C22_PadsWithTypeZero ==
    r_pc = "done" =>
        LET outputs == r_schema.schema.outputs
            n == Len(outputs)
            m == Len(ConvertedValues)
        IN /\ m < n =>
                /\ Len(r_result) = n
                /\ \A i \in 1..n :
                      r_result[i] = IF i <= m THEN ConvertedValues[i]
                                    ELSE TypeZero(outputs[i])
           /\ m > n => r_result = SubSeq(ConvertedValues, 1, n)

-----------------------------------------------------------------------------
(* _ensure_title_exists on its own: run is called, one call at a time, for *)
(* preset "p" or "q" of a document of any shape, and the write may fail.   *)

InitEnsure ==
    /\ InitCommon
    /\ panel_order = [i \in Instances |-> <<>>]
    /\ \E bytes \in DocumentStates : files = PlainDirectory(bytes)

NextEnsure ==
    \/ \E inst \in Instances, select \in {"p", "q"} :
            RunStart(inst, "a.yaml", select, "", FALSE)
    \/ EnsureRead
    \/ EnsureSave
    \/ EnsureSaveRaises
    \/ RunValues
    \/ RunResolve
    \/ RunConvert
    \/ RunReturn

SpecEnsure == InitEnsure /\ [][NextEnsure]_vars

-----------------------------------------------------------------------------
(* Properties of _ensure_title_exists (SpecEnsure) *)

\* The presets of document a.yaml, none when the file is missing or empty
PresetsOf(fs) == IF fs["a.yaml"].kind = "yaml" THEN fs["a.yaml"].data ELSE <<>>

\* C23: _ensure_title_exists adds the preset with an empty panel after the
\* other presets, which stay as they are, when the document has no such
\* preset; it writes nothing when the preset exists, so a second call
\* changes nothing; it returns true unless the read or the write failed.
C23_EnsureIsIdempotent ==
    [][ /\ (e_pc = "read" /\ e_pc' = "save") =>
              /\ ~MapHas(PresetsOf(files), e_data.title)
              /\ files' = files
        /\ (e_pc = "read" /\ e_pc' = "none") =>
              /\ files' = files
              /\ e_data'.ok = (files["a.yaml"].kind # "garbage")
              /\ e_data'.ok => MapHas(PresetsOf(files), e_data.title)
        /\ (e_pc = "save" /\ e_pc' = "none") =>
              IF e_data'.ok
              THEN /\ PresetsOf(files') =
                         Append(PresetsOf(files),
                                <<e_data.title,
                                  [tag |-> "map", values |-> [tag |-> "map", items |-> <<>>]]>>)
                   /\ files'["default.yaml"] = files["default.yaml"]
              ELSE files' = files
      ]_vars

\* The second call for preset q returned true without writing, after the
\* first call added q behind p
C23_Witness ==
    /\ ops = 2 /\ r_pc = "ensure" /\ r_args.select = "q"
    /\ e_pc = "none" /\ "ok" \in DOMAIN e_data /\ e_data.ok
    /\ MapKeys(PresetsOf(files)) = <<"p", "q">>
    /\ MapGet(PresetsOf(files), "q") = [tag |-> "map", values |-> [tag |-> "map", items |-> <<>>]]

-----------------------------------------------------------------------------
(* A brand-new presets directory: no file exists when the host first asks  *)
(* for the inputs (INPUT_TYPES), the frontend first asks for a prompt      *)
(* (refresh_enums) or run is first called.                                 *)

\* INPUT_TYPES, lines 135-143: the directory after the call
INPUT_TYPES(fs) ==
    IF Listing(fs) = <<>>
    THEN write_text(fs, "default.yaml", DefaultDocument)
    ELSE fs

InputTypes ==
    /\ files' = INPUT_TYPES(files)
    /\ UNCHANGED <<class_vars, promptlist_vars, lifecycle_vars,
                   clock, panel_order, dyn_out, workflow_loading, emitted,
                   r_pc, r_args, r_values, r_schema, r_keys, r_result, e_pc, e_data,
                   h_pc, h_req, h_data, response, w_pc, w_todo, w_file, w_bad, s_pc, s_tmp, ops>>

InitFresh ==
    /\ InitCommon
    /\ \E order \in {<<>>, <<"b", "a">>} : panel_order = [i \in Instances |-> order]
    /\ files = PlainDirectory(Absent)

NextFresh ==
    \/ InputTypes
    \/ \E init \in BOOLEAN : GetPromptBegin("example", init)
    \/ GetPromptEnd
    \/ \E inst \in Instances, select \in {"example", ""}, deferred \in BOOLEAN :
            RunStart(inst, "default.yaml", select, "", deferred)
    \/ EnsureRead
    \/ EnsureSave
    \/ RunValues
    \/ RunResolve
    \/ RunConvert
    \/ RunReturn

SpecFresh == InitFresh /\ [][NextFresh]_vars

-----------------------------------------------------------------------------
(* Properties of the brand-new directory (SpecFresh) *)

NoDocument(fs) == \A n \in DOMAIN fs : fs[n].kind = "absent"

\* The document written into an empty directory
SampleField == [tag |-> "map", type |-> "string", value |-> "Enter your value here"]
SamplePanel == [tag |-> "map", items |-> << <<"sample_key", SampleField>> >>]
SampleDocument ==
    [kind |-> "yaml",
     data |-> << <<"example", [tag |-> "map", values |-> SamplePanel]>> >>]

\* C24: enumerating an empty directory leaves exactly one document,
\* default.yaml, holding preset example with the one string field
\* sample_key; run on that preset resolves the schema
\* [(STRING, "sample_key_string")] and returns a one-element tuple.
C24_FreshDirectoryDefault ==
    [][ /\ (NoDocument(files) /\ ~NoDocument(files') /\ e_pc # "save") =>
              /\ files'["default.yaml"] = SampleDocument
              /\ \A n \in DOMAIN files' : n # "default.yaml" => files'[n].kind = "absent"
        /\ (/\ r_pc = "convert" /\ r_pc' # "convert"
            /\ r_args.yaml = "default.yaml" /\ r_args.select = "example"
            /\ r_values = SamplePanel /\ files["default.yaml"] = SampleDocument) =>
              /\ r_pc' = "done"
              /\ r_schema.schema = [outputs |-> <<"STRING">>, names |-> <<"sample_key_string">>]
              /\ r_result' = <<[py |-> "str", repr |-> "Enter your value here"]>>
      ]_vars

\* run returned for preset example of the default.yaml that the enumeration
\* wrote into the empty directory
C24_Witness ==
    /\ r_pc = "done" /\ r_args.yaml = "default.yaml" /\ r_args.select = "example"
    /\ files["default.yaml"] = SampleDocument /\ files["a.yaml"].kind = "absent"
    /\ r_schema.schema.names = <<"sample_key_string">>
    /\ Len(r_result) = 1

-----------------------------------------------------------------------------
(* NS_PromptList (src/nodes/prompt_list_node.py): a document maps a title  *)
(* to a mapping that holds the key "prompt"; run saves the prompt it is    *)
(* given, delete_title removes a title.                                    *)

\* The strings of the model in the order sorted() gives them
SortedKeys == <<"alpha", "negative", "prompt", "zeta">>

\* sorted(mapping.items()) of yaml's represent_mapping under sort_keys=True
SortItems(items) ==
    LET present == SelectSeq(SortedKeys, LAMBDA k : MapHas(items, k))
    IN [i \in 1..Len(present) |-> <<present[i], MapGet(items, present[i])>>]

\* The bytes of a document whose keys appear in the order of data
PromptDocument(data) == [kind |-> "yaml", data |-> data]

\* yaml.dump(data, tmp, ..., sort_keys=True), lines 282-283: the keys of the
\* document and of every mapping in it are written in sorted order
pl_yaml_dump(data) ==
    LET top == SortItems(data)
    IN [kind |-> "yaml",
        data |-> [i \in 1..Len(top) |->
                    <<top[i][1],
                      IF top[i][2].tag = "map" /\ "items" \in DOMAIN top[i][2]
                      THEN [top[i][2] EXCEPT !.items = SortItems(@)]
                      ELSE top[i][2]>>]]

\* yaml.safe_load(f) or {}
pl_yaml_load(bytes) == IF bytes.kind = "yaml" THEN bytes.data ELSE <<>>

PromptEntry(items) == [tag |-> "map", items |-> items]

\* NS_PromptList.run, lines 319-333: the data it is about to save
prompt_run_data(fs, yaml_file, title, prompt) ==
    IF fs[yaml_file].kind = "garbage" THEN [ok |-> FALSE, data |-> NoData]
    ELSE LET data == IF fs[yaml_file].kind = "absent" THEN <<>>
                     ELSE pl_yaml_load(fs[yaml_file])
             entry == IF MapHas(data, title) THEN MapGet(data, title) ELSE PromptEntry(<<>>)
         IN IF entry.tag # "map"                \* data[title]["prompt"] = ... raises
            THEN [ok |-> FALSE, data |-> NoData]
            ELSE [ok |-> TRUE,
                  data |-> MapPut(data, title,
                              [entry EXCEPT !.items = MapPut(@, "prompt", prompt)])]

\* NS_PromptList._save_yaml, lines 275-288
pl_save_yaml(fs, yaml_file, data) == [fs EXCEPT ![yaml_file] = pl_yaml_dump(data)]

\* run up to the call of _save_yaml (lines 310-338); without a title or a
\* prompt, and when the read raises, nothing is saved
PromptRun(title, prompt) ==
    /\ pl_pc = "idle" /\ ops < MaxOps
    /\ ops' = ops + 1
    /\ LET res == prompt_run_data(pl_files, "a.yaml", title, prompt)
       IN IF title # "" /\ prompt # "" /\ res.ok
          THEN pl_pc' = "save" /\ pl_data' = res.data
          ELSE UNCHANGED <<pl_pc, pl_data>>
    /\ UNCHANGED <<class_vars, pl_files, lifecycle_vars,
                   files, clock, panel_order, dyn_out, workflow_loading, emitted,
                   r_pc, r_args, r_values, r_schema, r_keys, r_result, e_pc, e_data,
                   h_pc, h_req, h_data, response, w_pc, w_todo, w_file, w_bad, s_pc, s_tmp>>

\* run: self._save_yaml(select_yaml, data), then return (prompt,)
PromptSave ==
    /\ pl_pc = "save"
    /\ pl_files' = pl_save_yaml(pl_files, "a.yaml", pl_data)
    /\ pl_pc' = "idle"
    /\ UNCHANGED <<pl_data, lifecycle_vars, flexpreset_vars>>

\* /ns_promptlist/delete_title and _delete_title, lines 242-253 and 290-308
PromptDeleteTitle(title) ==
    /\ ops < MaxOps
    /\ ops' = ops + 1
    /\ LET data == pl_yaml_load(pl_files["a.yaml"])
       IN IF pl_files["a.yaml"].kind = "yaml" /\ MapHas(data, title)
          THEN /\ pl_files' = pl_save_yaml(pl_files, "a.yaml", MapDel(data, title))
               /\ response' = json_response("delete_title", "true")
          ELSE /\ response' = json_response("delete_title", "false")
               /\ UNCHANGED pl_files
    /\ UNCHANGED <<class_vars, pl_pc, pl_data, lifecycle_vars,
                   files, clock, panel_order, dyn_out, workflow_loading, emitted,
                   r_pc, r_args, r_values, r_schema, r_keys, r_result, e_pc, e_data,
                   h_pc, h_req, h_data, w_pc, w_todo, w_file, w_bad, s_pc, s_tmp>>

\* Documents written by hand or by an earlier run, in any order of titles
PromptTitles == {"alpha", "zeta"}
PromptTexts == {"x", "y"}
PromptEntries ==
    { PromptEntry(<< <<"prompt", "x">> >>),
      PromptEntry(<< <<"prompt", "x">>, <<"negative", "y">> >>),
      PromptEntry(<< <<"negative", "y">>, <<"prompt", "x">> >>) }
PromptStates ==
    { Absent, Placeholder, Garbage(1) }
    \cup { PromptDocument(<< <<t, e>> >>) : t \in PromptTitles, e \in PromptEntries }
    \cup UNION { { PromptDocument(<< <<t, e>>, <<u, PromptEntry(<< <<"prompt", "y">> >>)>> >>) :
                        u \in PromptTitles \ {t}, e \in PromptEntries } :
                    t \in PromptTitles }

InitPromptList ==
    /\ InitProcess
    /\ panel_order = [i \in Instances |-> <<>>]
    /\ files = PlainDirectory(InitialDocument)
    /\ made = StoreObjects
    /\ observer = [o \in StoreObjects |-> "alive"]
    /\ w_event = NoEvent /\ shutdown_call = NoCall
    /\ pl_pc = "idle" /\ pl_data = NoData
    /\ \E bytes \in PromptStates :
          pl_files = [n \in PromptDocuments |-> IF n = "a.yaml" THEN bytes ELSE Absent]

NextPromptList ==
    \/ \E title \in PromptTitles \cup {""}, prompt \in PromptTexts \cup {""} :
            PromptRun(title, prompt)
    \/ PromptSave
    \/ \E title \in PromptTitles : PromptDeleteTitle(title)
    \/ \E k \in Keys : AddValue("add", "p", k, "string", "x", TRUE, "n1")
    \/ HandlerSave

SpecPromptList == InitPromptList /\ [][NextPromptList]_vars

-----------------------------------------------------------------------------
(* Properties of the document codecs (SpecPromptList) *)

\* C25: what a store writes is what a read gives back: the document read
\* after a write of NS_FlexPreset._save_yaml or NS_PromptList._save_yaml has
\* the presets, the panels and the fields of the written document, in the
\* same order and with the same values.
C25_RoundTripKeepsOrder ==
    [][ /\ (h_pc = "save" /\ h_pc' = "idle") =>
              /\ files'["a.yaml"].kind = "yaml"
              /\ files'["a.yaml"].data = h_data
        /\ (pl_pc = "save" /\ pl_pc' = "idle") =>
              /\ pl_files'["a.yaml"].kind = "yaml"
              /\ pl_files'["a.yaml"].data = pl_data
      ]_vars

-----------------------------------------------------------------------------
(* The change watcher: the observer of a store object dispatches a file    *)
(* system event of its directory to the object's YAMLFileHandler, which    *)
(* calls the object's refresh_enums.                                       *)

\* A path of the watched directory: its name, and its last five characters
Path(name, tail) == [name |-> name, tail |-> tail]
EventPaths ==
    { Path("a.yaml", ".yaml"), Path("notes.txt", "s.txt"), Path("a.yaml.bak", "l.bak"),
      Path("tmpq1w2e", "q1w2e"), Path("a.yml", "a.yml") }
EventKinds == {"created", "modified", "deleted", "moved"}

\* str.endswith
endswith(src_path, suffix) == src_path.tail = suffix

\* The bug of a handler without on_deleted
YAMLFileHandler_no_deleted(kind, is_directory, src_path) ==
    /\ kind \in {"modified", "created"}
    /\ ~is_directory /\ endswith(src_path, ".yaml")

\* YAMLFileHandler: on_modified, on_created and on_deleted call refresh_enums
\* under the same condition; FileSystemEventHandler's on_moved does nothing
YAMLFileHandler(kind, is_directory, src_path) ==
    /\ kind \in {"modified", "created", "deleted"}
    /\ ~is_directory /\ endswith(src_path, ".yaml")

\* The observer thread of object o takes an event from its queue
Dispatch(o, kind, is_directory, src_path) ==
    /\ o \in made /\ observer[o] = "alive"
    /\ w_pc = "idle" /\ ops < MaxOps
    /\ ops' = ops + 1
    /\ w_event' = [object |-> o, kind |-> kind, is_directory |-> is_directory,
                   src_path |-> src_path]
    /\ w_pc' = (IF YAMLFileHandler(kind, is_directory, src_path) THEN "called" ELSE "idle")
    /\ UNCHANGED <<class_vars, promptlist_vars, made, observer, shutdown_call,
                   files, clock, panel_order, dyn_out, workflow_loading, emitted,
                   r_pc, r_args, r_values, r_schema, r_keys, r_result, e_pc, e_data,
                   h_pc, h_req, h_data, response, w_todo, w_file, w_bad, s_pc, s_tmp>>

\* "example:\n  prompt: 'Enter your prompt here'\n"
PromptDefaultDocument ==
    PromptDocument(<< <<"example", PromptEntry(<< <<"prompt", "Enter your prompt here">> >>)>> >>)

\* NS_PromptList._get_yaml_files
pl_get_yaml_files(fs) ==
    IF Listing(fs) = <<>>
    THEN [fs EXCEPT !["default.yaml"] = PromptDefaultDocument]
    ELSE fs

\* NS_PromptList.refresh_enums: _get_titles_from_yaml of every file listed
RECURSIVE pl_RefreshLoop(_, _, _)
pl_RefreshLoop(fs, t, todo) ==
    IF todo = <<>> THEN fs
    ELSE pl_RefreshLoop(_get_titles_from_yaml(fs, t, Head(todo)), t, Tail(todo))

pl_refresh_enums(fs, t) ==
    LET listed == pl_get_yaml_files(fs)
    IN pl_RefreshLoop(listed, t, Listing(listed))

\* The callback: refresh_enums of the object whose handler was called
WatchCallback ==
    /\ w_pc = "called"
    /\ w_pc' = "idle"
    /\ IF w_event.object[1] = "NS_FlexPreset"
       THEN files' = refresh_enums(files, clock).files /\ UNCHANGED pl_files
       ELSE pl_files' = pl_refresh_enums(pl_files, clock) /\ UNCHANGED files
    /\ UNCHANGED <<class_vars, pl_pc, pl_data, lifecycle_vars,
                   clock, panel_order, dyn_out, workflow_loading, emitted,
                   r_pc, r_args, r_values, r_schema, r_keys, r_result, e_pc, e_data,
                   h_pc, h_req, h_data, response, w_todo, w_file, w_bad, s_pc, s_tmp, ops>>

InitWatch ==
    /\ InitProcess
    /\ panel_order = [i \in Instances |-> <<>>]
    /\ made = StoreObjects
    /\ observer = [o \in StoreObjects |-> "alive"]
    /\ w_event = NoEvent /\ shutdown_call = NoCall
    /\ pl_pc = "idle" /\ pl_data = NoData
    /\ \E bytes \in {Absent, InitialDocument} : files = PlainDirectory(bytes)
    /\ \E bytes \in {Absent, PromptDefaultDocument} :
          pl_files = [n \in PromptDocuments |-> IF n = "a.yaml" THEN bytes ELSE Absent]

NextWatch ==
    \/ \E o \in StoreClasses \X {"module"}, kind \in EventKinds, is_directory \in BOOLEAN,
          src_path \in EventPaths :
            Dispatch(o, kind, is_directory, src_path)
    \/ WatchCallback

SpecWatch == InitWatch /\ [][NextWatch]_vars

-----------------------------------------------------------------------------
(* Properties of the change watcher (SpecWatch) *)

\* C26: the watcher calls refresh_enums for every created, modified and
\* deleted event whose path is not a directory and ends in .yaml, and for no
\* event on a directory or on a path with another ending.
C26_WatcherFiltersEvents ==
    [][ ops' = ops + 1 =>
          /\ (/\ w_event'.kind \in {"created", "modified", "deleted"}
              /\ ~w_event'.is_directory
              /\ w_event'.src_path.tail = ".yaml") => w_pc' = "called"
          /\ (w_event'.is_directory \/ w_event'.src_path.tail # ".yaml") => w_pc' = "idle"
      ]_vars

\* A deleted event for a.yaml reached the handler of NS_PromptList's object
\* and its refresh_enums is about to run
C26_Witness ==
    /\ w_pc = "called"
    /\ w_event.kind = "deleted" /\ ~w_event.is_directory
    /\ w_event.src_path.name = "a.yaml"
    /\ w_event.object[1] = "NS_PromptList"

-----------------------------------------------------------------------------
(* Construction and shutdown of the store objects.  Nothing is made before *)
(* the modules are imported; an object is made by get_instance on import,  *)
(* by _get_instance on the first request or schema resolution, and by the  *)
(* host for a node of the graph.  self.observer is None ("none"), an       *)
(* Observer whose thread runs ("alive"), one whose thread has ended        *)
(* ("dead") or one whose start() raised ("unstarted").                     *)

\* _start_watchdog, lines 352-358, on an object whose observer is obs
_start_watchdog(obs, started) ==
    IF obs = "alive" THEN obs
    ELSE IF started THEN "alive" ELSE "unstarted"

\* The bug of stopping whatever observer there is: join() on a thread that
\* was never started raises RuntimeError
shutdown_unguarded(obs) ==
    IF obs = "none" THEN [observer |-> obs, outcome |-> "returned"]
    ELSE IF obs = "unstarted" THEN [observer |-> obs, outcome |-> "raised"]
    ELSE [observer |-> "none", outcome |-> "returned"]

\* shutdown, lines 125-130
shutdown(obs) ==
    IF obs # "none" /\ obs = "alive"
    THEN [observer |-> "none", outcome |-> "returned"]
    ELSE [observer |-> obs, outcome |-> "returned"]

\* cls(): __init__ sets observer = None and calls _start_watchdog; when
\* start() raises, __init__ raises and nothing keeps the object
Construct(o, started) ==
    /\ o \notin made /\ observer[o] = "none"
    /\ observer' = [observer EXCEPT ![o] = _start_watchdog("none", started)]
    /\ made' = (IF started THEN made \cup {o} ELSE made)
    /\ UNCHANGED <<w_event, shutdown_call, promptlist_vars, flexpreset_vars>>

\* get_instance() at the end of the module: _instance is None on import
ImportModule(c, started) ==
    /\ <<c, "module">> \notin made
    /\ Construct(<<c, "module">>, started)

\* cls._get_instance(): the class has no attribute _instance until this call
ClassGetInstance(c, started) ==
    /\ <<c, "module">> \in made
    /\ Construct(<<c, "class">>, started)

\* The host makes an object of the class in NODE_CLASS_MAPPINGS for a node
HostCreate(c, started) ==
    /\ <<c, "module">> \in made
    /\ Construct(<<c, "host">>, started)

\* The thread of an observer ends (it is stopped from outside, or fails)
ObserverEnds(o) ==
    /\ observer[o] = "alive"
    /\ observer' = [observer EXCEPT ![o] = "dead"]
    /\ UNCHANGED <<made, w_event, shutdown_call, promptlist_vars, flexpreset_vars>>

\* shutdown() called directly, by __del__ or by the atexit hook
Shutdown(o) ==
    /\ o \in made \/ observer[o] # "none"
    /\ ops < MaxOps
    /\ ops' = ops + 1
    /\ observer' = [observer EXCEPT ![o] = shutdown(@).observer]
    /\ shutdown_call' = [object |-> o, outcome |-> shutdown(observer[o]).outcome]
    /\ UNCHANGED <<class_vars, made, w_event, promptlist_vars,
                   files, clock, panel_order, dyn_out, workflow_loading, emitted,
                   r_pc, r_args, r_values, r_schema, r_keys, r_result, e_pc, e_data,
                   h_pc, h_req, h_data, response, w_pc, w_todo, w_file, w_bad, s_pc, s_tmp>>

InitLifecycle ==
    /\ InitProcess
    /\ panel_order = [i \in Instances |-> <<>>]
    /\ files = PlainDirectory(InitialDocument)
    /\ pl_files = [n \in PromptDocuments |-> Absent]
    /\ pl_pc = "idle" /\ pl_data = NoData
    /\ made = {}
    /\ observer = [o \in StoreObjects |-> "none"]
    /\ w_event = NoEvent /\ shutdown_call = NoCall

NextLifecycle ==
    \/ \E c \in StoreClasses, started \in BOOLEAN : ImportModule(c, started)
    \/ \E c \in StoreClasses, started \in BOOLEAN : ClassGetInstance(c, started)
    \/ \E c \in StoreClasses, started \in BOOLEAN : HostCreate(c, started)
    \/ \E o \in StoreObjects : ObserverEnds(o)
    \/ \E o \in StoreObjects : Shutdown(o)

SpecLifecycle == InitLifecycle /\ [][NextLifecycle]_vars

-----------------------------------------------------------------------------
(* Properties of the objects' lifecycle (SpecLifecycle) *)

\* C27: shutdown never fails, whatever the observer's state: on a running
\* observer it stops and clears it, and in every other state (never
\* started, already cleared by an earlier call, ended) it changes nothing.
C27_ShutdownIsIdempotent ==
    [][ ops' = ops + 1 =>
          LET o == shutdown_call'.object
          IN /\ shutdown_call'.outcome = "returned"
             /\ observer[o] = "alive" => observer'[o] = "none"
             /\ observer[o] # "alive" => observer'[o] = observer[o]
             /\ \A other \in StoreObjects \ {o} : observer'[other] = observer[other]
             /\ made' = made
      ]_vars

\* shutdown was called a second time on the only object made, whose observer
\* the first call stopped and cleared
C27_Witness ==
    /\ ops = 2
    /\ made = {<<"NS_FlexPreset", "module">>}
    /\ \A o \in StoreObjects : observer[o] = "none"
    /\ shutdown_call = [object |-> <<"NS_FlexPreset", "module">>, outcome |-> "returned"]

\* C28: at most one store object exists for each class in every reachable
\* state, so the module's get_instance, the handlers' _get_instance and the
\* resolver all work on the same object.
C28_OneStorePerNamespace ==
    \A c \in StoreClasses : Cardinality({o \in made : o[1] = c}) <= 1

-----------------------------------------------------------------------------
(* Properties of a preset without a panel (SpecDocs) *)

\* Preset p of a.yaml is a mapping whose "values" entry is null or missing
NullPanel(fs) ==
    /\ fs["a.yaml"].kind = "yaml"
    /\ \E i \in 1..Len(fs["a.yaml"].data) :
          /\ fs["a.yaml"].data[i][1] = "p"
          /\ fs["a.yaml"].data[i][2].tag = "map"
          /\ \/ "values" \notin DOMAIN fs["a.yaml"].data[i][2]
             \/ fs["a.yaml"].data[i][2].values.tag = "null"

\* The evaluation in progress is of preset p of a.yaml
RunsPresetP == r_args.yaml = "a.yaml" /\ r_args.select = "p"

\* The server thread takes a request in this step
RequestTaken == h_pc = "idle" /\ ops' = ops + 1 /\ r_pc' = r_pc

\* C29: a preset whose panel is null or absent is treated as a preset with
\* no fields by every operation: add_value creates the field, refresh_enums
\* completes, the resolver returns the default entry and run returns a
\* one-element tuple.
C29_NullPanelIsEmptyPanel ==
    [][ NullPanel(files) =>
          /\ (RequestTaken /\ h_pc' = "idle" /\ response'.op = "add") =>
                response'.success = "true"
          /\ (RequestTaken /\ h_pc' = "save" /\ h_req'.op = "add") =>
                PanelItems([files EXCEPT !["a.yaml"] = yaml_dump(h_data')], "p")
                    = << <<"b", [tag |-> "map", type |-> "int", value |-> "5"]>> >>
          /\ (RequestTaken /\ h_pc' = "idle" /\ response'.op = "get_prompt") =>
                response'.success = "true"
          /\ (r_pc = "resolve" /\ r_pc' = "convert" /\ RunsPresetP) =>
                r_schema'.schema = [outputs |-> <<"STRING">>, names |-> <<"output">>]
          /\ (r_pc = "convert" /\ r_pc' # "convert" /\ RunsPresetP
                /\ r_values.tag = "null") =>
                r_pc' = "done" /\ Len(r_result') = 1
      ]_vars

-----------------------------------------------------------------------------
(* The frame of the panel-order tracker (SpecDocs) *)

\* The requests that are to change the tracker
TrackerOps == {"delete", "update_key", "update_panel_order"}

\* The server thread takes a delete_value, rename_key or set_panel_order
\* request in this step
TrackerRequestTaken ==
    /\ RequestTaken
    /\ \/ h_pc' = "save" /\ h_req'.op \in TrackerOps
       \/ h_pc' = "idle" /\ response'.op \in TrackerOps

\* C30: the panel-order tracker of an instance changes only in a step that
\* takes a delete_value, rename_key or set_panel_order request; resolving a
\* schema and running an evaluation leave it as it is, for every preset name
\* and document, the empty preset name and the missing document included.
C30_TrackerChangedOnlyByRequests ==
    [][ \A i \in Instances :
          panel_order'[i] # panel_order[i] => TrackerRequestTaken ]_vars

-----------------------------------------------------------------------------
(* The write lock (SpecStore) *)

\* async with self.write_lock, line 621: the holder of the store's lock.
\* The handler holds it from the temp file to os.replace; the coroutine of
\* _ensure_title_exists takes and releases it within its one step.
write_lock ==
    IF s_pc = "tmp" THEN "handler"
    ELSE IF e_pc = "save" THEN "ensure" ELSE "free"

\* This step is the os.replace of a _save_yaml, taken by the holder of the lock
LockedWrite ==
    \/ write_lock = "handler" /\ s_pc' = "none"
    \/ write_lock = "ensure" /\ e_pc' = "none"

\* The process itself (no outside editor) changes the directory in this step
StoreWrites == files' # files /\ ops' = ops

\* C31: every write of the store to a document file is made by the holder
\* of the write lock: the writes of the mutations and of ensure_preset, the
\* placeholder of a quarantine and the creation of the default document.
C31_WritesHoldTheLock == [][ StoreWrites => LockedWrite ]_vars

-----------------------------------------------------------------------------
(* The directory after a refresh (SpecDocs) *)

\* Every *.yaml entry of the directory can be parsed
AllParseable(fs) ==
    \A i \in 1..Len(Listing(fs)) : ~LoadRaises(fs[Listing(fs)[i]])

\* The refresh_enums pass of a get_prompt request with init_outputs runs to
\* its end in this step
RefreshCompletes == h_pc = "idle" /\ h_pc' = "get_prompt" /\ h_req'.init

\* C32: when a refresh_enums pass has completed, every *.yaml entry of the
\* directory, the files made by quarantine included, is parseable.
C32_ParseableAfterRefresh == [][ RefreshCompletes => AllParseable(files') ]_vars

-----------------------------------------------------------------------------
(* A document replaced through a temporary file.  _save_yaml and an editor  *)
(* that saves the same way write a temporary file into the directory and    *)
(* rename it over the document.  The observer reports the temporary file's  *)
(* creation under the temporary name and the rename as a moved event whose  *)
(* src_path is the temporary name; it runs the handler, and with it         *)
(* refresh_enums, on its own thread before it takes the next event.         *)

TempPath == Path("tmpq1w2e", "q1w2e")
DocumentPath == Path("a.yaml", ".yaml")

\* The contents a writer saves
SavedContents ==
    { <<>>, yaml_load(InitialDocument), yaml_load(DefaultDocument),
      << <<"p", Preset(<< <<"a", Field("int", "5")>> >>)>> >>,
      << <<"q", Preset(<<>>)>> >>,
      << <<"p", Preset(<< <<"b", Field("string", "x")>> >>)>>, <<"q", Preset(<<>>)>> >> }

\* FileSystemEventHandler.dispatch on the observer thread of NS_FlexPreset
Observed(kind, src_path) ==
    /\ w_event' = [object |-> <<"NS_FlexPreset", "module">>, kind |-> kind,
                   is_directory |-> FALSE, src_path |-> src_path]
    /\ w_pc' = (IF YAMLFileHandler(kind, FALSE, src_path) THEN "called" ELSE "idle")

\* tempfile.NamedTemporaryFile(dir=presets_dir, delete=False) and yaml.dump,
\* lines 624-630: a file without the .yaml ending appears in the directory
WriteTemp(data) ==
    /\ s_pc = "none" /\ w_pc = "idle" /\ ops < MaxOps
    /\ ops' = ops + 1
    /\ s_tmp' = write_tmp(files, "a.yaml", data).tmp
    /\ s_pc' = "tmp"
    /\ Observed("created", TempPath)
    /\ UNCHANGED <<class_vars, promptlist_vars, made, observer, shutdown_call,
                   files, clock, panel_order, dyn_out, workflow_loading, emitted,
                   r_pc, r_args, r_values, r_schema, r_keys, r_result, e_pc, e_data,
                   h_pc, h_req, h_data, response, w_todo, w_file, w_bad>>

\* os.replace(tmp_path, str(yaml_path)), line 633
RenameTemp ==
    /\ s_pc = "tmp" /\ w_pc = "idle"
    /\ files' = os_replace(files, "a.yaml", s_tmp)
    /\ s_tmp' = Absent /\ s_pc' = "none"
    /\ Observed("moved", TempPath)
    /\ UNCHANGED <<class_vars, promptlist_vars, made, observer, shutdown_call,
                   clock, panel_order, dyn_out, workflow_loading, emitted,
                   r_pc, r_args, r_values, r_schema, r_keys, r_result, e_pc, e_data,
                   h_pc, h_req, h_data, response, w_todo, w_file, w_bad, ops>>

\* An editor that writes the document in place
EditInPlace(data) ==
    /\ s_pc = "none" /\ w_pc = "idle" /\ ops < MaxOps
    /\ ops' = ops + 1
    /\ files' = [files EXCEPT !["a.yaml"] = yaml_dump(data)]
    /\ Observed("modified", DocumentPath)
    /\ UNCHANGED <<class_vars, promptlist_vars, made, observer, shutdown_call,
                   clock, panel_order, dyn_out, workflow_loading, emitted,
                   r_pc, r_args, r_values, r_schema, r_keys, r_result, e_pc, e_data,
                   h_pc, h_req, h_data, response, w_todo, w_file, w_bad, s_pc, s_tmp>>

InitRename ==
    /\ InitProcess
    /\ panel_order = [i \in Instances |-> <<>>]
    /\ made = StoreObjects
    /\ observer = [o \in StoreObjects |-> "alive"]
    /\ w_event = NoEvent /\ shutdown_call = NoCall
    /\ pl_files = [n \in PromptDocuments |-> Absent]
    /\ pl_pc = "idle" /\ pl_data = NoData
    /\ \E data \in SavedContents : files = PlainDirectory(yaml_dump(data))

NextRename ==
    \/ \E data \in SavedContents : WriteTemp(data)
    \/ RenameTemp
    \/ \E data \in SavedContents : EditInPlace(data)
    \/ WatchCallback

\* The writer finishes what it began and the observer thread keeps running
SpecRename ==
    /\ InitRename /\ [][NextRename]_vars
    /\ WF_vars(RenameTemp) /\ WF_vars(WatchCallback)

\* C33: after a document was replaced by a temporary file renamed over it,
\* the watcher calls refresh_enums at least once.
C33_RenameTriggersRefresh == (w_event.kind = "moved") ~> (w_pc = "called")

-----------------------------------------------------------------------------
(* refresh_enums run twice (SpecDocs) *)

\* The titles _get_titles_from_yaml returns, lines 305-318
TitlesOf(fs, name) ==
    IF ~Exists(fs, name) \/ LoadRaises(fs[name]) THEN <<"">>
    ELSE MapKeys(ReadData(fs, name))

\* enum_data of refresh_enums, lines 365-380, for a pass that does not raise:
\* per file of the listing its titles and, per title, the keys of its values
RECURSIVE EnumLoop(_, _, _)
EnumLoop(fs, t, todo) ==
    IF todo = <<>> THEN <<>>
    ELSE LET name == Head(todo)
             titles == TitlesOf(fs, name)
             after == _get_titles_from_yaml(fs, t, name)
         IN << [yaml |-> name, titles |-> titles,
                values |-> [i \in 1..Len(titles) |->
                              MapKeys(_get_values_from_yaml(after, name, titles[i]).items)]] >>
            \o EnumLoop(after, t, Tail(todo))

enum_data(fs, t) == EnumLoop(_get_yaml_files(fs), t, Listing(_get_yaml_files(fs)))

\* C34: refresh_enums is idempotent: a second pass right after a completed
\* one leaves the directory as the first pass left it and broadcasts the
\* payload the first pass broadcast.
C34_RefreshIsIdempotent ==
    LET first == refresh_enums(files, clock)
        second == refresh_enums(first.files, clock)
    IN ~first.raised =>
          /\ ~second.raised
          /\ second.files = first.files
          /\ enum_data(first.files, clock) = enum_data(files, clock)

-----------------------------------------------------------------------------
(* run and the coroutine it starts, with the loop running or not, next to   *)
(* an add request of the server thread.  The coroutine and the task run to  *)
(* their end: no write fails.                                               *)

InitRunEnsure ==
    /\ InitCommon
    /\ panel_order = [i \in Instances |-> <<>>]
    /\ \E bytes \in DocumentStates : files = Directory(bytes)

NextRunEnsure ==
    \/ \E inst \in Instances, yaml \in {"a.yaml", ""}, select \in {"p", "q", ""},
          deferred \in BOOLEAN :
            RunStart(inst, yaml, select, "", deferred)
    \/ EnsureRead
    \/ EnsureSave
    \/ RunValues
    \/ RunResolve
    \/ RunConvert
    \/ RunReturn
    \/ AddValue("add", "p", "b", "int", "5", TRUE, "n1")
    \/ HandlerSave

SpecRunEnsure ==
    /\ InitRunEnsure /\ [][NextRunEnsure]_vars
    /\ WF_vars(EnsureRead) /\ WF_vars(EnsureSave)

\* C35: after run is invoked with a document name and a preset name the
\* document does not contain, the preset eventually exists in the document
\* (created with an empty panel unless a request created it first); run
\* invoked with an empty preset or document name starts no coroutine and
\* writes nothing.
C35_RunCreatesThePreset ==
    /\ \A t \in {"p", "q"} :
          (e_pc = "read" /\ e_data.title = t /\ ~MapHas(PresetsOf(files), t))
              ~> MapHas(PresetsOf(files), t)
    /\ [][ /\ (r_pc = "idle" /\ r_pc' # "idle" /\ (r_args'.yaml = "" \/ r_args'.select = ""))
               => e_pc' = "none" /\ files' = files
           /\ (r_pc # "idle" /\ r_pc' # r_pc /\ h_pc' = h_pc
                 /\ (r_args.yaml = "" \/ r_args.select = ""))
               => e_pc' = "none" /\ files' = files ]_vars

-----------------------------------------------------------------------------
(* The watcher fed by the store's own writes.  A refresh pass that          *)
(* quarantines a file creates the placeholder with write_text; the observer *)
(* reports that creation under the placeholder's name, which ends in .yaml, *)
(* so the handler calls refresh_enums again.                                *)

\* The *.yaml files a pass has created or written
WrittenBy(before, after) ==
    {n \in DOMAIN before : after[n] # before[n] /\ after[n] # Absent}

\* refresh_enums on the observer thread, and the event of its own write
RefreshPass ==
    /\ w_pc = "called"
    /\ LET after == refresh_enums(files, clock).files
       IN /\ files' = after
          /\ IF WrittenBy(files, after) # {}
             THEN Observed("created",
                           Path(CHOOSE n \in WrittenBy(files, after) : TRUE, ".yaml"))
             ELSE w_pc' = "idle" /\ UNCHANGED w_event
    /\ UNCHANGED <<class_vars, promptlist_vars, made, observer, shutdown_call,
                   clock, panel_order, dyn_out, workflow_loading, emitted,
                   r_pc, r_args, r_values, r_schema, r_keys, r_result, e_pc, e_data,
                   h_pc, h_req, h_data, response, w_todo, w_file, w_bad, s_pc, s_tmp, ops>>

\* An editor outside the process saves unparsable bytes as a.yaml in place
CorruptInPlace(id) ==
    /\ ops < MaxOps
    /\ ops' = ops + 1
    /\ files' = [files EXCEPT !["a.yaml"] = Garbage(id)]
    /\ Observed("modified", DocumentPath)
    /\ UNCHANGED <<class_vars, promptlist_vars, made, observer, shutdown_call,
                   clock, panel_order, dyn_out, workflow_loading, emitted,
                   r_pc, r_args, r_values, r_schema, r_keys, r_result, e_pc, e_data,
                   h_pc, h_req, h_data, response, w_todo, w_file, w_bad, s_pc, s_tmp>>

NextChain ==
    \/ \E id \in GarbageIds : CorruptInPlace(id)
    \/ RefreshPass
    \/ Tick

SpecChain == InitStore /\ [][NextChain]_vars

\* The copies of copies: the names a quarantine of a quarantined file makes
ChainedNames == YamlNames \ NamesUpTo(1)

\* C36: the refresh loop driven by the watcher quiesces after a corrupt
\* document: the unparsable bytes saved once as a.yaml are quarantined and
\* the passes that follow rename and create nothing more, so no quarantined
\* copy is quarantined again, however many passes the watcher runs.
C36_QuarantineQuiesces ==
    ops <= 1 => \A n \in ChainedNames : ~Exists(files, n)

-----------------------------------------------------------------------------
(* The frame of a rename (SpecMutate) *)

\* C37: a successful rename_key changes the name of exactly one field: the
\* panel has as many fields as before and every field but the renamed one
\* keeps its name, type, value and position, also when another field of the
\* panel already has the new name.
C37_RenameKeepsOtherFields ==
    [][ (h_pc = "save" /\ h_pc' = "idle" /\ h_req.op = "update_key"
            /\ response' = [op |-> "update_key", success |-> "true"])
            => LET before == PanelItems(files, h_req.title)
                   after == PanelItems(files', h_req.title)
               IN /\ Len(after) = Len(before)
                  /\ \A j \in 1..Len(before) :
                        before[j][1] # h_req.old_key =>
                            j <= Len(after) /\ after[j] = before[j] ]_vars

-----------------------------------------------------------------------------
(* The schema resolved after a sequence of requests (SpecMutate) *)

\* C38: after any sequence of add, delete, rename and set_panel_order
\* requests, the schema a handler resolves for a preset with a non-empty
\* panel holds each field of the panel exactly once: it is as long as the
\* panel and no output name is repeated, whatever the tracker holds.
C38_SchemaListsEachFieldOnce ==
    [][ (h_pc = "save" /\ h_pc' = "idle" /\ response'.success = "true"
            /\ h_req.refresh /\ PanelItems(files', h_req.title) # <<>>)
            => /\ Len(dyn_out'.names) = Len(PanelItems(files', h_req.title))
               /\ Len(dyn_out'.outputs) = Len(PanelItems(files', h_req.title))
               /\ \A i, j \in 1..Len(dyn_out'.names) :
                     dyn_out'.names[i] = dyn_out'.names[j] => i = j ]_vars

-----------------------------------------------------------------------------
(* The class attributes under two threads (SpecAttributes): run resolves   *)
(* on the evaluation thread (line 783) while get_prompt resolves on the    *)
(* server thread (line 429).  dynamic_output_types assigns RETURN_TYPES    *)
(* and RETURN_NAMES in two statements (lines 203-204, 217-218, 277-278)    *)
(* and holds no lock, so the other thread may run between them.            *)

\* dynamic_output_types in run, up to the assignment of cls.RETURN_TYPES
\* (lines 783, 176-277); the call that returns at line 197 assigns nothing
RunResolveTypes ==
    /\ r_pc = "resolve"
    /\ LET res == dynamic_output_types(files, panel_order["singleton"], workflow_loading,
                                       r_args.yaml, r_args.select, r_args.input)
       IN /\ r_schema' = [schema |-> res.schema, keys |-> res.keys]
          /\ dyn_out' = StoreSchema(res)
          /\ panel_order' = StoreOrder(res)
          /\ RETURN_TYPES' = (IF res.stored THEN res.schema.outputs ELSE RETURN_TYPES)
          /\ r_pc' = (IF res.stored THEN "names" ELSE "convert")
    /\ UNCHANGED <<RETURN_NAMES, promptlist_vars, lifecycle_vars,
                   files, clock, workflow_loading, emitted,
                   r_args, r_values, r_keys, r_result, e_pc, e_data,
                   h_pc, h_req, h_data, response, w_pc, w_todo, w_file, w_bad, s_pc, s_tmp, ops>>

\* The assignment of cls.RETURN_NAMES and the return (lines 204, 218, 278-280)
RunResolveNames ==
    /\ r_pc = "names"
    /\ RETURN_NAMES' = r_schema.schema.names
    /\ r_pc' = "convert"
    /\ UNCHANGED <<RETURN_TYPES, promptlist_vars, lifecycle_vars,
                   files, clock, panel_order, dyn_out, workflow_loading, emitted,
                   r_args, r_values, r_schema, r_keys, r_result, e_pc, e_data,
                   h_pc, h_req, h_data, response, w_pc, w_todo, w_file, w_bad, s_pc, s_tmp, ops>>

\* get_prompt, lines 426-430: dynamic_output_types up to the assignment of
\* cls.RETURN_TYPES; the handler keeps what the call is about to return
GetPromptTypes ==
    /\ h_pc = "get_prompt"
    /\ LET res == dynamic_output_types(files, panel_order["singleton"], workflow_loading,
                                       h_req.yaml, h_req.title, h_req.title)
       IN /\ dyn_out' = StoreSchema(res)
          /\ panel_order' = StoreOrder(res)
          /\ RETURN_TYPES' = (IF res.stored THEN res.schema.outputs ELSE RETURN_TYPES)
          /\ h_req' = [op |-> "get_prompt", yaml |-> h_req.yaml, title |-> h_req.title,
                       init |-> h_req.init, stored |-> res.stored, schema |-> res.schema]
    /\ h_pc' = "names"
    /\ UNCHANGED <<RETURN_NAMES, promptlist_vars, lifecycle_vars,
                   files, clock, workflow_loading, emitted,
                   r_pc, r_args, r_values, r_schema, r_keys, r_result, e_pc, e_data,
                   h_data, response, w_pc, w_todo, w_file, w_bad, s_pc, s_tmp, ops>>

\* The assignment of cls.RETURN_NAMES, then get_prompt, lines 432-442
GetPromptNames ==
    /\ h_pc = "names"
    /\ RETURN_NAMES' = (IF h_req.stored THEN h_req.schema.names ELSE RETURN_NAMES)
    /\ emitted' = [event |-> "set_widgets", op |-> "get_prompt",
                   data |-> _get_prompt_data(files, h_req.yaml, h_req.title),
                   outputs |-> h_req.schema.outputs,
                   output_names |-> h_req.schema.names]
    /\ workflow_loading' = (IF h_req.init THEN FALSE ELSE workflow_loading)
    /\ response' = json_response("get_prompt", "true")
    /\ h_pc' = "idle" /\ h_req' = NoReq
    /\ UNCHANGED <<RETURN_TYPES, promptlist_vars, lifecycle_vars,
                   files, clock, panel_order, dyn_out,
                   r_pc, r_args, r_values, r_schema, r_keys, r_result, e_pc, e_data,
                   h_data, w_pc, w_todo, w_file, w_bad, s_pc, s_tmp, ops>>

NextAttributes ==
    \/ \E yaml \in {"a.yaml", ""}, deferred \in BOOLEAN :
            RunStart("singleton", yaml, "p", "", deferred)
    \/ EnsureRead
    \/ EnsureSave
    \/ RunValues
    \/ RunResolveTypes
    \/ RunResolveNames
    \/ RunConvert
    \/ RunReturn
    \/ \E init \in BOOLEAN : GetPromptBegin("p", init)
    \/ GetPromptTypes
    \/ GetPromptNames

SpecAttributes == InitDocs /\ [][NextAttributes]_vars

\* The schema that the class declares to an observer
ClassSchema == [outputs |-> RETURN_TYPES, names |-> RETURN_NAMES]

\* C39: in every reachable state, also while a resolve call runs on another
\* thread, RETURN_TYPES and RETURN_NAMES have the same length and are the
\* two halves of one resolved schema: the placeholder of the class body or
\* the schema that the last resolve call stored.
C39_ClassSchemaConsistent ==
    /\ Len(RETURN_TYPES) = Len(RETURN_NAMES)
    /\ ClassSchema \in {DefaultSchema, dyn_out}

-----------------------------------------------------------------------------
(* The _workflow_loading flag (SpecDocs) *)

\* A get_prompt request with init_outputs is being handled
LoadingRequest == h_pc = "get_prompt" /\ h_req.init

\* C40: the flag is true only while a get_prompt request with init_outputs
\* is being handled: once such a request has ended, with an answer or with
\* an exception of refresh_enums, the flag is false again.
C40_LoadingFlagIsReset == workflow_loading => LoadingRequest

====
